---- MODULE Spec2Model ----
(***************************************************************************)
(* A model of the upload heuristics of the breast-cancer detection         *)
(* back end: the duplicate detector (backend/duplicate_detector.py), the   *)
(* mammogram validator (backend/mammogram_validator.py), the Grad-CAM      *)
(* regions, the view detection and the CC view analysis                    *)
(* (backend/grad_cam.py), the /analyze endpoint, the risk levels and       *)
(* get_model (backend/main.py), /batch-predict (app.py) and the pages of   *)
(* the Streamlit app (backend/app.py).                                     *)
(*                                                                         *)
(* Conventions.                                                            *)
(*  - A Python dict is a sequence of <<key, value>> pairs in insertion     *)
(*    order (dicts iterate in insertion order; assigning to a key that is  *)
(*    present keeps its place).                                            *)
(*  - A Python string built by an f-string is the sequence of its parts;   *)
(*    the empty string is <<>>.                                            *)
(*  - A hex digest is the sequence of its hex digits, each 0..15.          *)
(*  - Means, standard deviations and percentages are compared exactly,     *)
(*    by cross-multiplication, where the code compares float64 values.     *)
(***************************************************************************)
EXTENDS Integers, Sequences, FiniteSets, TLC

VARIABLES
    uploaded_hashes,    \* DuplicateDetector.uploaded_hashes : file hash -> filename
    uploaded_phashes,   \* DuplicateDetector.uploaded_phashes: perceptual hash -> filename
    call,               \* the last call made on the detector, with its arguments
    ret,                \* the value that call returned
    accepted,           \* the byte strings accepted and recorded since the last clear()
    repeated,           \* the last call repeats the one before, which was flagged
    flagged_before,     \* the upload flagged as duplicate right before the last clear()
    requests,           \* the check_duplicate calls in progress, one per worker thread
    calls_made,         \* number of concurrent calls started
    raced,              \* two calls for the same bytes were both between lookup and store
    upload,             \* the image and content type handed to validate_mammogram_image
    validation,         \* the pair validate_mammogram_image returned for it
    validator_pc,       \* "idle", "received" (before the call) or "validated" (after it)
    detect_call,        \* the arguments of the last detect_bounding_boxes call
    detect_ret,         \* the boxes it returned, or that it raised
    request,            \* the upload posted to /analyze, with the model that serves it
    analyze_pc,         \* how far analyze_image has got with it
    gradcam_locals,     \* heatmap, boxes and filtered_boxes of create_gradcam_visualization
    gradcam_ret,        \* the tuple create_gradcam_visualization returned
    response,           \* the answer of /analyze
    view_image,         \* the image handed to generate_mammogram_view_analysis
    view_pc,            \* how far its auto-detection has got
    view_locals,        \* text_laterality, text_view, detected_view, detected_laterality
    consulted,          \* the detectors it has called for this image, in order
    risk_pc,            \* how far the risk assessment of run_full_analysis has got
    risk_locals,        \* confidence, risk_level and what get_risk_level returned
    session_state,      \* st.session_state of the Streamlit app
    uploaded_file,      \* the file in its st.file_uploader, with the model on disk
    last_run,           \* the click that started the last run of main() and its end
    process,            \* the server module the running process was started from
    _model,             \* its global _model: None or the cached model
    get_model_ret,      \* what its last call of get_model did and returned
    get_model_calls,    \* the number of calls of get_model in the process
    loads,              \* the number of those calls that made a model from the file
    failures,           \* the number of those calls whose load failed
    served,             \* the models those calls returned
    batch_request,      \* the files posted to /batch-predict, with the model on disk
    batch_pc,           \* how far batch_predict has got with them
    batch_response,     \* its answer
    files_read,         \* the number of files batch_predict has read
    cc_call,            \* the function called for a CC view, with its arguments
    cc_ret              \* what the call returned, or what it raised

detector_vars ==
    <<uploaded_hashes, uploaded_phashes, call, ret, accepted, repeated, flagged_before>>

concurrent_vars == <<requests, calls_made, raced>>

validator_vars == <<upload, validation, validator_pc>>

detect_vars == <<detect_call, detect_ret>>

analyze_vars == <<request, analyze_pc, gradcam_locals, gradcam_ret, response>>

view_vars == <<view_image, view_pc, view_locals, consulted>>

gradcam_vars == <<detect_vars, analyze_vars, view_vars>>

risk_vars == <<risk_pc, risk_locals>>

streamlit_vars == <<session_state, uploaded_file, last_run>>

model_vars == <<process, _model, get_model_ret, get_model_calls, loads, failures,
                served>>

batch_vars == <<batch_request, batch_pc, batch_response, files_read>>

cc_vars == <<cc_call, cc_ret>>

service_vars == <<risk_vars, streamlit_vars, model_vars, batch_vars, cc_vars>>

vars == <<detector_vars, concurrent_vars, validator_vars, gradcam_vars, service_vars>>

-----------------------------------------------------------------------------
(* Bounds of the model.                                                    *)

\* Number of distinct byte strings (file contents) that are uploaded.
NumData == 3

\* Number of distinct decodable pictures.
NumImages == 3

Filenames == {"a.png", "b.png"}

\* Worker threads of the server that share the global detector, and the
\* number of calls they make.
Threads == {"t1", "t2"}

MaxCalls == 2

DataIds == 1 .. NumData

\* A picture that cannot be resized (a closed or truncated file).
BrokenImage == 0

ImageIds == 1 .. NumImages

Images == ImageIds \cup {BrokenImage}

\* No upload.
None == <<>>

-----------------------------------------------------------------------------
(* Helpers.                                                                *)

RECURSIVE SumSeq(_, _)
SumSeq(s, n) == IF n = 0 THEN 0 ELSE s[n] + SumSeq(s, n - 1)

\* Picture k has its first 28 + BrightShift(k) pixels bright: 0, 4, 1, 5, 2, ...
\* so that the pictures are 1 to 6 bits apart.
BrightShift(k) == (4 * (k - 1)) % 7

\* The 8x8 grayscale reduction of a picture, flattened row by row: the value
\* of np.array(image.resize((8, 8)).convert('L')).
SmallGray(image) ==
    [i \in 1 .. 64 |-> IF i <= 28 + BrightShift(image) THEN 200 + image ELSE 50]

-----------------------------------------------------------------------------
(* DuplicateDetector                                                       *)

\* hashlib.sha256(image_data).hexdigest(): collision-free on the uploads.
get_file_hash(image_data) == <<"sha256", image_data>>

\* Image.resize raises on a broken picture.
HashingRaises(image) == image = BrokenImage

get_perceptual_hash(image) ==
    LET pixels == SmallGray(image)
        total == SumSeq(pixels, 64)
        \* pixels > pixels.mean()
        hash_bits == [i \in 1 .. 64 |-> IF pixels[i] * 64 > total THEN 1 ELSE 0]
    IN  \* format(int(bits, 2), '016x')
        [j \in 1 .. 16 |->
            8 * hash_bits[4 * j - 3] + 4 * hash_bits[4 * j - 2]
            + 2 * hash_bits[4 * j - 1] + hash_bits[4 * j]]

\* float('inf'): more than any distance of two 64-bit hashes.
Infinity == 65

\* Character i of bin(int(hash, 16))[2:].zfill(64)
HexToBit(hash, i) ==
    LET digit == hash[((i - 1) \div 4) + 1]
        place == 3 - ((i - 1) % 4)
    IN  (digit \div (2 ^ place)) % 2

hamming_distance(hash1, hash2) ==
    IF Len(hash1) # Len(hash2) THEN Infinity
    ELSE Cardinality({i \in 1 .. 64 : HexToBit(hash1, i) # HexToBit(hash2, i)})

\* The hashes and distances of the pictures of the model, computed once.
PerceptualHashes == [image \in ImageIds |-> get_perceptual_hash(image)]

HammingDistances ==
    [h1 \in {PerceptualHashes[k] : k \in ImageIds},
     h2 \in {PerceptualHashes[k] : k \in ImageIds} |-> hamming_distance(h1, h2)]

\* Threshold of the perceptual comparison (distance <= 3).
SimilarityThreshold == 3

DictKeys(d) == {d[i][1] : i \in DOMAIN d}

\* d[k] = v
DictSet(d, k, v) ==
    IF k \in DictKeys(d)
    THEN [i \in DOMAIN d |-> IF d[i][1] = k THEN <<k, v>> ELSE d[i]]
    ELSE Append(d, <<k, v>>)

\* A variant that compares with the most recent upload only.
ExactMatchLastOnly(hashes, file_hash) ==
    IF hashes # <<>> /\ hashes[Len(hashes)][1] = file_hash THEN Len(hashes) ELSE 0

\* for prev_hash, prev_filename in uploaded_hashes.items(): first equal hash
\* (its index, 0 when there is none).
ExactMatch(hashes, file_hash) ==
    LET hits == {i \in DOMAIN hashes : hashes[i][1] = file_hash}
    IN  IF hits = {} THEN 0 ELSE CHOOSE i \in hits : \A j \in hits : i <= j

\* A variant with the comparison distance < 3.
SimilarMatchStrict(phashes, phash) ==
    LET hits == {i \in DOMAIN phashes :
                    HammingDistances[phash, phashes[i][1]] < SimilarityThreshold}
    IN  IF hits = {} THEN 0 ELSE CHOOSE i \in hits : \A j \in hits : i <= j

\* A variant with the front end's threshold, distance <= 5.
SimilarMatchLoose(phashes, phash) ==
    LET hits == {i \in DOMAIN phashes :
                    HammingDistances[phash, phashes[i][1]] <= SimilarityThreshold + 2}
    IN  IF hits = {} THEN 0 ELSE CHOOSE i \in hits : \A j \in hits : i <= j

\* for prev_phash, prev_filename in uploaded_phashes.items(): first stored
\* hash within the threshold (its index, 0 when there is none).
SimilarMatch(phashes, phash) ==
    LET hits == {i \in DOMAIN phashes :
                    HammingDistances[phash, phashes[i][1]] <= SimilarityThreshold}
    IN  IF hits = {} THEN 0 ELSE CHOOSE i \in hits : \A j \in hits : i <= j

NotDuplicate == [is_duplicate |-> FALSE, message |-> <<>>]

ExactMessage(prev_filename) ==
    <<"Exact duplicate detected: This image matches '", prev_filename, "'">>

SimilarMessage(prev_filename, distance) ==
    <<"Duplicate detected: This image is very similar to '", prev_filename,
      "' (similarity: ", 64 - distance, "/64)">>

Outcome(r, hashes, phashes) == [ret |-> r, hashes |-> hashes, phashes |-> phashes]

\* A variant that refuses the upload when hashing raises.
HashingFailedRefuses(hashes, phashes) ==
    Outcome([is_duplicate |-> TRUE, message |-> <<"Error checking for duplicates">>],
            hashes, phashes)

\* except Exception: return False, "" (nothing was stored before the raise:
\* both hashes are computed before the first store).
HashingFailed(hashes, phashes) == Outcome(NotDuplicate, hashes, phashes)

\* if not self.uploaded_hashes and not self.uploaded_phashes: store and return.
FirstUpload(hashes, phashes, image_data, image, filename) ==
    IF HashingRaises(image)
    THEN HashingFailed(hashes, phashes)
    ELSE Outcome(NotDuplicate,
                 DictSet(hashes, get_file_hash(image_data), filename),
                 DictSet(phashes, PerceptualHashes[image], filename))

\* A variant that re-records the matched hash under the new filename.
ExactDuplicateRenames(hashes, phashes, hit, filename) ==
    Outcome([is_duplicate |-> TRUE, message |-> ExactMessage(hashes[hit][2])],
            DictSet(hashes, hashes[hit][1], filename), phashes)

\* if file_hash == prev_hash: return True, "Exact duplicate detected ..."
ExactDuplicate(hashes, phashes, hit, filename) ==
    Outcome([is_duplicate |-> TRUE, message |-> ExactMessage(hashes[hit][2])],
            hashes, phashes)

\* if distance <= 3: return True, "Duplicate detected ..."
SimilarDuplicate(hashes, phashes, phash, hit, filename) ==
    Outcome([is_duplicate |-> TRUE,
             message |-> SimilarMessage(phashes[hit][2],
                                        HammingDistances[phash, phashes[hit][1]])],
            hashes, phashes)

\* A variant that records the file hash only.
StoreNewFileHashOnly(hashes, phashes, file_hash, phash, filename) ==
    Outcome(NotDuplicate, DictSet(hashes, file_hash, filename), phashes)

\* Store this image's hashes for future comparisons; return False, "".
StoreNew(hashes, phashes, file_hash, phash, filename) ==
    Outcome(NotDuplicate,
            DictSet(hashes, file_hash, filename),
            DictSet(phashes, phash, filename))

\* The outcome of check_duplicate(image_data, image, filename) on a detector
\* whose stores are hashes and phashes: the returned pair and the stores after.
CheckOutcome(hashes, phashes, image_data, image, filename) ==
    LET file_hash == get_file_hash(image_data)
        exact == ExactMatch(hashes, file_hash)
    IN
    IF hashes = <<>> /\ phashes = <<>>
    THEN FirstUpload(hashes, phashes, image_data, image, filename)
    ELSE IF exact # 0
    THEN ExactDuplicate(hashes, phashes, exact, filename)
    ELSE IF HashingRaises(image)
    THEN HashingFailed(hashes, phashes)
    ELSE LET phash == PerceptualHashes[image]
             similar == SimilarMatch(phashes, phash)
         IN  IF similar # 0
             THEN SimilarDuplicate(hashes, phashes, phash, similar, filename)
             ELSE StoreNew(hashes, phashes, file_hash, phash, filename)

NoCall(op) == [op |-> op, image_data |-> 0, image |-> BrokenImage, filename |-> ""]

check_duplicate(image_data, image, filename) ==
    LET out == CheckOutcome(uploaded_hashes, uploaded_phashes, image_data, image, filename)
        this == [op |-> "check_duplicate", image_data |-> image_data,
                 image |-> image, filename |-> filename]
    IN  /\ uploaded_hashes' = out.hashes
        /\ uploaded_phashes' = out.phashes
        /\ ret' = out.ret
        /\ call' = this
        /\ accepted' = IF ~out.ret.is_duplicate /\ out.hashes # uploaded_hashes
                       THEN accepted \cup {image_data}
                       ELSE accepted
        /\ repeated' = (call = this /\ ret.is_duplicate)
        /\ flagged_before' = IF call.op = "clear" THEN flagged_before ELSE None

\* A variant that forgets to clear the perceptual hashes.
clear_hashes_only ==
    /\ uploaded_hashes' = <<>>
    /\ uploaded_phashes' = uploaded_phashes
    /\ call' = NoCall("clear")
    /\ ret' = NotDuplicate
    /\ accepted' = {}
    /\ repeated' = FALSE
    /\ flagged_before' =
         IF call.op = "check_duplicate" /\ ret.is_duplicate
         THEN <<call.image_data, call.image>>
         ELSE None

clear ==
    /\ uploaded_hashes' = <<>>
    /\ uploaded_phashes' = <<>>
    /\ call' = NoCall("clear")
    /\ ret' = NotDuplicate
    /\ accepted' = {}
    /\ repeated' = FALSE
    /\ flagged_before' =
         IF call.op = "check_duplicate" /\ ret.is_duplicate
         THEN <<call.image_data, call.image>>
         ELSE None


-----------------------------------------------------------------------------
(* MammogramValidator                                                      *)
(*                                                                         *)
(* An image is a record [mode, width, height, layout, bg, fg, ow, oh]; its *)
(* pixels are the colour bg with, for layout "rect", a block of colour fg  *)
(* of ow x oh pixels in the top left corner and, for layout "stripes",     *)
(* vertical stripes of fg two pixels wide.  A colour is <<r, g, b>>; an    *)
(* image of mode L holds the first component.                              *)

MIN_WIDTH == 10
MIN_HEIGHT == 10
MAX_ASPECT_RATIO == 20
\* MIN_ASPECT_RATIO = 0.05, in hundredths.
MIN_ASPECT_RATIO_HUNDREDTHS == 5
MAX_COLOR_VARIANCE == 30
\* MAX_EDGE_DENSITY = 0.7, in tenths.
MAX_EDGE_DENSITY_TENTHS == 7

\* Side of the square images whose pixels are examined.
Side == 10

Black == <<0, 0, 0>>
Gray60 == <<60, 60, 60>>
Gray128 == <<128, 128, 128>>
Gray180 == <<180, 180, 180>>
LightGray == <<240, 240, 240>>
White == <<255, 255, 255>>
Red == <<255, 0, 0>>
\* The mean colour of the flower of test_flower_image.
Pink == <<255, 83, 113>>
\* The skin tone of test_validation_works.
Skin == <<220, 180, 150>>
LowSkin == <<120, 110, 100>>
Muted == <<130, 100, 100>>

Grays == {Black, Gray60, Gray128, Gray180, LightGray, White}

Backgrounds == {Black, Gray60, Gray128, LightGray, White, Red, LowSkin, Muted}

Foregrounds == {Gray128, Gray180, White, Pink, Skin}

Modes == {"L", "RGB", "RGBA", "LA", "PA"}

Sizes == {<<MIN_WIDTH - 1, Side>>, <<Side, Side>>,
          <<Side * (MAX_ASPECT_RATIO + 1), Side>>,
          <<Side, Side * (MAX_ASPECT_RATIO + 1)>>}

\* Blocks: none, 4 pixels, 14 pixels, 16 pixels, half the image.
Blocks == {<<0, 0>>, <<2, 2>>, <<2, 7>>, <<4, 4>>, <<Side \div 2, Side>>}

\* Files cut off after the header: the mode and the size are known, the
\* pixels cannot be decoded (bg and fg stand for the data that is missing).
TruncatedImages ==
    {[mode |-> m, width |-> sz[1], height |-> sz[2], layout |-> "truncated",
      bg |-> Gray128, fg |-> Gray128, ow |-> 0, oh |-> 0] : m \in Modes, sz \in Sizes}

TestImages ==
    {[mode |-> m, width |-> sz[1], height |-> sz[2], layout |-> "rect",
      bg |-> b, fg |-> f, ow |-> blk[1], oh |-> blk[2]] :
        m \in Modes, sz \in Sizes, b \in Backgrounds, f \in Foregrounds, blk \in Blocks}
    \cup
    {[mode |-> m, width |-> sz[1], height |-> sz[2], layout |-> "stripes",
      bg |-> b, fg |-> f, ow |-> 0, oh |-> 0] :
        m \in Modes, sz \in Sizes, b \in Backgrounds, f \in Foregrounds}
    \cup TruncatedImages

\* A content type is the sequence of the pieces of its string: the first
\* piece, then whatever follows it.  <<>> is None or the empty string.
ContentTypes == {<<>>, <<"image/png">>, <<"image/jpeg", "2000">>, <<"text/plain">>}

allowed_types == {"image/jpeg", "image/jpg", "image/png", "image/tiff", "image/bmp",
                  "application/dicom"}

\* np.array(image)[y - 1, x - 1]
ColorAt(image, x, y) ==
    IF image.layout = "stripes"
    THEN IF ((x - 1) \div 2) % 2 = 0 THEN image.bg ELSE image.fg
    ELSE IF image.layout = "lines"
    THEN IF (x - 1) % 4 = 2 THEN image.fg ELSE image.bg
    ELSE IF x <= image.ow /\ y <= image.oh THEN image.fg ELSE image.bg

NumPixels(image) == image.width * image.height

XOf(image, k) == ((k - 1) % image.width) + 1

YOf(image, k) == ((k - 1) \div image.width) + 1

PixelAt(image, k) == ColorAt(image, XOf(image, k), YOf(image, k))

\* len(img_array.shape) == 3 and img_array.shape[2] == 3
ThreeChannels(image) == image.mode = "RGB"

Abs(n) == IF n < 0 THEN -n ELSE n

Max3(c) == IF c[1] >= c[2] /\ c[1] >= c[3] THEN c[1] ELSE IF c[2] >= c[3] THEN c[2] ELSE c[3]

Min3(c) == IF c[1] <= c[2] /\ c[1] <= c[3] THEN c[1] ELSE IF c[2] <= c[3] THEN c[2] ELSE c[3]

Pixels(image) == 1 .. NumPixels(image)

\* The sum of values[lo .. hi] (by halves).
RECURSIVE SumRange(_, _, _)
SumRange(values, lo, hi) ==
    IF lo > hi THEN 0
    ELSE IF lo = hi THEN values[lo]
    ELSE SumRange(values, lo, (lo + hi) \div 2)
         + SumRange(values, ((lo + hi) \div 2) + 1, hi)

\* The sum of a value given for every pixel of an image.
SumPixels(values) == SumRange(values, 1, Len(values))

\* |r - g| + |r - b| + |g - b| of a pixel: 3 * avg_color_diff is its mean.
ChannelDiff(image, k) ==
    LET c == PixelAt(image, k)
    IN  Abs(c[1] - c[2]) + Abs(c[1] - c[3]) + Abs(c[2] - c[3])

\* max_channel - min_channel of a pixel.
Saturation(image, k) == LET c == PixelAt(image, k) IN Max3(c) - Min3(c)

\* (r > g) & (g > b) & (r > 100) & (r < 255)
SkinTone(image, k) ==
    LET c == PixelAt(image, k)
    IN  c[1] > c[2] /\ c[2] > c[3] /\ c[1] > 100 /\ c[1] < 255

\* Three times the gray value of a pixel: gray is np.mean(img_array, axis=2)
\* of a 3-channel image, and the array itself otherwise.
Gray3At(image, x, y) ==
    LET c == ColorAt(image, x, y)
    IN  IF ThreeChannels(image) THEN c[1] + c[2] + c[3] ELSE 3 * c[1]

Gray3(image, k) == Gray3At(image, XOf(image, k), YOf(image, k))

Gray3Squared(image, k) == Gray3(image, k) * Gray3(image, k)

\* Six times np.gradient(gray) along x: central differences inside,
\* one-sided differences at the two borders.
GradX6(image, x, y) ==
    IF x = 1 THEN 2 * (Gray3At(image, 2, y) - Gray3At(image, 1, y))
    ELSE IF x = image.width
    THEN 2 * (Gray3At(image, x, y) - Gray3At(image, x - 1, y))
    ELSE Gray3At(image, x + 1, y) - Gray3At(image, x - 1, y)

GradY6(image, x, y) ==
    IF y = 1 THEN 2 * (Gray3At(image, x, 2) - Gray3At(image, x, 1))
    ELSE IF y = image.height
    THEN 2 * (Gray3At(image, x, y) - Gray3At(image, x, y - 1))
    ELSE Gray3At(image, x, y + 1) - Gray3At(image, x, y - 1)

\* edge_magnitude > 30, that is gx**2 + gy**2 > 900
StrongEdge(image, k) ==
    LET gx == GradX6(image, XOf(image, k), YOf(image, k))
        gy == GradY6(image, XOf(image, k), YOf(image, k))
    IN  gx * gx + gy * gy > 900 * 36

\* (gray > 20) & (gray < 235)
Tissue(image, k) == Gray3(image, k) > 3 * 20 /\ Gray3(image, k) < 3 * 235

\* A pixel of hist[0:10] or hist[246:256]: gray < 10 or gray >= 246.
Extreme(image, k) == Gray3(image, k) < 3 * 10 \/ Gray3(image, k) >= 3 * 246

\* avg_color_diff > MAX_COLOR_VARIANCE
ColorDiffTooHigh(image) ==
    SumPixels([k \in Pixels(image) |-> ChannelDiff(image, k)])
        > 3 * MAX_COLOR_VARIANCE * NumPixels(image)

\* avg_saturation > 25
SaturationTooHigh(image) ==
    SumPixels([k \in Pixels(image) |-> Saturation(image, k)]) > 25 * NumPixels(image)

\* skin_tone_percentage > 15
SkinToneTooHigh(image) ==
    Cardinality({k \in Pixels(image) : SkinTone(image, k)}) * 100 > 15 * image.width * image.height

\* mean_intensity < 3
TooDark(image) == SumPixels([k \in Pixels(image) |-> Gray3(image, k)]) < 3 * 3 * NumPixels(image)

\* mean_intensity > 252
TooBright(image) == SumPixels([k \in Pixels(image) |-> Gray3(image, k)]) > 3 * 252 * NumPixels(image)

\* std_intensity < 2: with s = sum(gray3) = q * n + r and a = sum(gray3**2)
\* - q*q*n - 2*q*r, the variance of gray3 times n*n is n * a - r*r, to be
\* compared with 36 * n * n (the products are kept small).
LowContrast(image) ==
    LET n == NumPixels(image)
        s == SumPixels([k \in Pixels(image) |-> Gray3(image, k)])
        q == s \div n
        r == s % n
        a == SumPixels([k \in Pixels(image) |-> Gray3Squared(image, k)]) - q * q * n - 2 * q * r
    IN  IF a >= 37 * n THEN FALSE ELSE n * a - r * r < 36 * n * n

\* edge_density > MAX_EDGE_DENSITY
EdgeDensityTooHigh(image) ==
    Cardinality({k \in Pixels(image) : StrongEdge(image, k)}) * 10 > MAX_EDGE_DENSITY_TENTHS * NumPixels(image)

\* tissue_percentage < 0.1
TooLittleTissue(image) == Cardinality({k \in Pixels(image) : Tissue(image, k)}) * 1000 < NumPixels(image)

\* extreme_pixels > 0.95
ExtremeHistogram(image) == Cardinality({k \in Pixels(image) : Extreme(image, k)}) * 100 > 95 * NumPixels(image)

Accept == [valid |-> TRUE, message |-> <<>>]

Reject(message) == [valid |-> FALSE, message |-> message]

NoReason == <<>>

\* A variant that knows RGBA only.
TransparencyCheckRGBA(image) ==
    IF image.mode = "RGBA" THEN <<"This image has transparency">> ELSE NoReason

\* Check 0
TransparencyCheck(image) ==
    IF image.mode \in {"RGBA", "LA", "PA"}
    THEN <<"This image has transparency">>
    ELSE NoReason

\* Check 1
ResolutionCheck(image) ==
    IF image.width < MIN_WIDTH \/ image.height < MIN_HEIGHT
    THEN <<"Image resolution too low", image.width, image.height>>
    ELSE NoReason

\* Check 2: aspect_ratio = width / height
AspectRatioCheck(image) ==
    IF \/ image.width > MAX_ASPECT_RATIO * image.height
       \/ 100 * image.width < MIN_ASPECT_RATIO_HUNDREDTHS * image.height
    THEN <<"Invalid image aspect ratio">>
    ELSE NoReason

\* A variant that tests the saturation before the channel difference.
ColorCheckSaturationFirst(image) ==
    IF ~ThreeChannels(image) THEN NoReason
    ELSE IF SaturationTooHigh(image) THEN <<"This is a COLORFUL IMAGE">>
    ELSE IF ColorDiffTooHigh(image) THEN <<"This is a COLOR PHOTOGRAPH">>
    ELSE IF SkinToneTooHigh(image) THEN <<"This appears to be a PHOTOGRAPH of a person">>
    ELSE NoReason

\* A variant with a laxer saturation limit of 50.
ColorCheckLaxSaturation(image) ==
    IF ~ThreeChannels(image) THEN NoReason
    ELSE IF ColorDiffTooHigh(image) THEN <<"This is a COLOR PHOTOGRAPH">>
    ELSE IF SumPixels([k \in Pixels(image) |-> Saturation(image, k)]) > 50 * NumPixels(image)
    THEN <<"This is a COLORFUL IMAGE">>
    ELSE IF SkinToneTooHigh(image) THEN <<"This appears to be a PHOTOGRAPH of a person">>
    ELSE NoReason

\* Check 3, for arrays of three channels
ColorCheck(image) ==
    IF ~ThreeChannels(image) THEN NoReason
    ELSE IF ColorDiffTooHigh(image) THEN <<"This is a COLOR PHOTOGRAPH">>
    ELSE IF SaturationTooHigh(image) THEN <<"This is a COLORFUL IMAGE">>
    ELSE IF SkinToneTooHigh(image) THEN <<"This appears to be a PHOTOGRAPH of a person">>
    ELSE NoReason

\* Check 4
BrightnessCheck(image) ==
    IF TooDark(image) THEN <<"Image is too dark">>
    ELSE IF TooBright(image) THEN <<"Image is too bright">>
    ELSE NoReason

\* Check 5
ContrastCheck(image) ==
    IF LowContrast(image) THEN <<"Image has too little contrast">> ELSE NoReason

\* Check 6: the density is computed and logged, and the image is let through.
EdgeDensityCheck(image) ==
    IF EdgeDensityTooHigh(image) THEN NoReason ELSE NoReason

\* Check 7
TissueCheck(image) ==
    IF TooLittleTissue(image)
    THEN <<"Image does not contain sufficient tissue area">>
    ELSE NoReason

\* Check 8
HistogramCheck(image) ==
    IF ExtremeHistogram(image) THEN <<"Invalid intensity distribution">> ELSE NoReason

validate(image) ==
    LET reason ==
          IF TransparencyCheck(image) # NoReason THEN TransparencyCheck(image)
          ELSE IF ResolutionCheck(image) # NoReason THEN ResolutionCheck(image)
          ELSE IF AspectRatioCheck(image) # NoReason THEN AspectRatioCheck(image)
          ELSE IF ColorCheck(image) # NoReason THEN ColorCheck(image)
          ELSE IF BrightnessCheck(image) # NoReason THEN BrightnessCheck(image)
          ELSE IF ContrastCheck(image) # NoReason THEN ContrastCheck(image)
          ELSE IF EdgeDensityCheck(image) # NoReason THEN EdgeDensityCheck(image)
          ELSE IF TissueCheck(image) # NoReason THEN TissueCheck(image)
          ELSE HistogramCheck(image)
    IN  IF reason = NoReason THEN Accept ELSE Reject(reason)

\* content_type.startswith(allowed) or content_type == allowed
validate_file_type(content_type) ==
    IF content_type = <<>> THEN Reject(<<"No file type specified">>)
    ELSE IF ~\E allowed \in allowed_types : content_type[1] = allowed
    THEN Reject(<<"Invalid file type: ", content_type>>)
    ELSE Accept

\* np.array(image) raises on a file whose pixel data cannot be decoded; the
\* mode and the size of the image are read from its header before that.
ValidateRaises(image) ==
    /\ image.layout = "truncated"
    /\ TransparencyCheck(image) = NoReason
    /\ ResolutionCheck(image) = NoReason
    /\ AspectRatioCheck(image) = NoReason

\* A variant that refuses the image when a check raises.
validate_mammogram_image_failing_closed(image, content_type) ==
    IF content_type # <<>> /\ ~validate_file_type(content_type).valid
    THEN validate_file_type(content_type)
    ELSE IF ValidateRaises(image) THEN Reject(<<"Validation exception">>)
    ELSE validate(image)

\* try: the type check when a content type is given, then validate(image);
\* except Exception: return True, ""
validate_mammogram_image(image, content_type) ==
    IF content_type # <<>> /\ ~validate_file_type(content_type).valid
    THEN validate_file_type(content_type)
    ELSE IF ValidateRaises(image) THEN Accept
    ELSE validate(image)

BlankImage == [mode |-> "L", width |-> Side, height |-> Side, layout |-> "rect",
               bg |-> Black, fg |-> Gray128, ow |-> 0, oh |-> 0]

NoUpload == [image |-> BlankImage, content_type |-> <<>>]

ValidatorInit ==
    /\ upload = NoUpload
    /\ validation = Accept
    /\ validator_pc = "idle"

\* An upload arrives.
Receive ==
    /\ validator_pc = "idle"
    /\ \E image \in TestImages, content_type \in ContentTypes :
          upload' = [image |-> image, content_type |-> content_type]
    /\ validator_pc' = "received"
    /\ UNCHANGED <<validation, detector_vars, concurrent_vars, gradcam_vars, service_vars>>

\* is_valid, error = validate_mammogram_image(image, content_type)
Validate ==
    /\ validator_pc = "received"
    /\ validation' = validate_mammogram_image(upload.image, upload.content_type)
    /\ validator_pc' = "validated"
    /\ UNCHANGED <<upload, detector_vars, concurrent_vars, gradcam_vars, service_vars>>

\* The answer is sent and the image is dropped.
Respond ==
    /\ validator_pc = "validated"
    /\ upload' = NoUpload
    /\ validation' = Accept
    /\ validator_pc' = "idle"
    /\ UNCHANGED <<detector_vars, concurrent_vars, gradcam_vars, service_vars>>

-----------------------------------------------------------------------------
(* Grad-CAM regions (backend/grad_cam.py)                                  *)
(*                                                                         *)
(* A heatmap is a record [h, w, cells]: cells[y * w + x + 1] is            *)
(* heatmap[y, x] in hundredths (0 .. 100 after normalisation).  Array      *)
(* coordinates are 0-based as in the code; a cell or pixel is <<x, y>>.    *)
(* A tissue mask is given by the image it was computed from, the value of  *)
(* create_tissue_mask(np.array(image)); NoTissueMask is tissue_mask=None.   *)
(* A box is [x1, y1, x2, y2, sum, count]: its confidence, the mean         *)
(* activation of its region, is sum / count hundredths.                    *)

NoTissueMask == [mode |-> "None"]

HeatAt(heatmap, x, y) == heatmap.cells[y * heatmap.w + x + 1]

HeatCells(heatmap) == (0 .. heatmap.w - 1) \X (0 .. heatmap.h - 1)

\* create_tissue_mask(img_array, threshold=15)[y, x]: np.mean over the
\* channels, or the gray value, above 15.
TissueAt(image, x, y) ==
    LET c == ColorAt(image, x + 1, y + 1)
    IN  IF image.mode = "L" THEN c[1] > 15 ELSE c[1] + c[2] + c[3] > 3 * 15

\* Image.resize(.., Image.NEAREST): output pixel i of n reads input pixel
\* int((i + 0.5) * m / n) of m.
NearestSource(i, n, m) == ((2 * i + 1) * m) \div (2 * n)

\* tissue_mask_resized[y, x]
TissueMaskResized(heatmap, tissue_mask, x, y) ==
    TissueAt(tissue_mask,
             NearestSource(x, heatmap.w, tissue_mask.width),
             NearestSource(y, heatmap.h, tissue_mask.height))

\* heatmap = heatmap * tissue_mask_resized
MaskedHeat(heatmap, tissue_mask, x, y) ==
    IF tissue_mask # NoTissueMask /\ ~TissueMaskResized(heatmap, tissue_mask, x, y)
    THEN 0
    ELSE HeatAt(heatmap, x, y)

\* binary_mask = (heatmap > threshold)
BinaryMask(heatmap, threshold, tissue_mask) ==
    {p \in HeatCells(heatmap) : MaskedHeat(heatmap, tissue_mask, p[1], p[2]) > threshold}

\* Cells that share an edge (the default structure of ndimage.label).
Adjacent(p, q) == Abs(p[1] - q[1]) + Abs(p[2] - q[2]) = 1

RECURSIVE Grow(_, _)
Grow(region, on) ==
    LET next == region \cup {q \in on : \E p \in region : Adjacent(p, q)}
    IN  IF next = region THEN region ELSE Grow(next, on)

MinOf(S) == CHOOSE n \in S : \A m \in S : n <= m

MaxOf(S) == CHOOSE n \in S : \A m \in S : n >= m

\* The place of the first cell of a region in a row-by-row scan.
FirstCell(region, w) == MinOf({p[2] * w + p[1] : p \in region})

\* The regions in the order in which a row-by-row scan meets them.
InScanOrder(regions, w) ==
    [i \in 1 .. Cardinality(regions) |->
        CHOOSE r \in regions :
            Cardinality({s \in regions : FirstCell(s, w) < FirstCell(r, w)}) = i - 1]

\* ndimage.label(binary_mask): the connected components, numbered in the
\* order in which a row-by-row scan meets them.
Label(on, w) == InScanOrder({Grow({p}, on) : p \in on}, w)

RECURSIVE SumSet(_, _, _)
SumSet(heatmap, tissue_mask, region) ==
    IF region = {} THEN 0
    ELSE LET p == CHOOSE q \in region : TRUE
         IN  MaskedHeat(heatmap, tissue_mask, p[1], p[2])
             + SumSet(heatmap, tissue_mask, region \ {p})

\* A variant that scales the far edge of a cell instead of its near edge.
ScaleToImageFarEdge(coord, size, cells) == ((coord + 1) * size) \div cells

\* int(x_min * scale_x) with scale_x = orig_w / heatmap_w
ScaleToImage(coord, size, cells) == (coord * size) \div cells

\* A variant with the comparison the wrong way round.
TooSmallInverted(count, min_area, heatmap, size) ==
    count * size[1] * size[2] > min_area * heatmap.w * heatmap.h

\* len(region_coords[0]) < min_area / (scale_x * scale_y)
TooSmall(count, min_area, heatmap, size) ==
    count * size[1] * size[2] < min_area * heatmap.w * heatmap.h

\* (x1, y1, x2, y2, confidence) of one labelled region
BoxOf(heatmap, size, tissue_mask, region) ==
    [x1 |-> ScaleToImage(MinOf({p[1] : p \in region}), size[1], heatmap.w),
     y1 |-> ScaleToImage(MinOf({p[2] : p \in region}), size[2], heatmap.h),
     x2 |-> ScaleToImage(MaxOf({p[1] : p \in region}), size[1], heatmap.w),
     y2 |-> ScaleToImage(MaxOf({p[2] : p \in region}), size[2], heatmap.h),
     sum |-> SumSet(heatmap, tissue_mask, region),
     count |-> Cardinality(region)]

RECURSIVE BoxesOf(_, _, _, _, _)
BoxesOf(heatmap, size, min_area, tissue_mask, regions) ==
    IF regions = <<>> THEN <<>>
    ELSE (IF TooSmall(Cardinality(Head(regions)), min_area, heatmap, size)
          THEN <<>>
          ELSE <<BoxOf(heatmap, size, tissue_mask, Head(regions))>>)
         \o BoxesOf(heatmap, size, min_area, tissue_mask, Tail(regions))

\* detect_bounding_boxes: the list of boxes, or raised = TRUE when the
\* division min_area / (scale_x * scale_y) is by zero (an image without
\* area and at least one region).
detect_bounding_boxes(heatmap, original_image_size, threshold, min_area, tissue_mask) ==
    LET regions == Label(BinaryMask(heatmap, threshold, tissue_mask), heatmap.w)
    IN  IF regions # <<>> /\ original_image_size[1] * original_image_size[2] = 0
        THEN [raised |-> TRUE, boxes |-> <<>>]
        ELSE [raised |-> FALSE,
              boxes |-> BoxesOf(heatmap, original_image_size, min_area,
                                tissue_mask, regions)]

\* The heatmaps, thresholds, image sizes, minimum areas and tissue masks
\* that detect_bounding_boxes is called with.
HeatmapShapes == {<<2, 3>>, <<3, 2>>}

ActivationLevels == {0, 60, 100}

Heatmaps ==
    UNION {{[h |-> s[1], w |-> s[2], cells |-> c] :
                c \in [1 .. s[1] * s[2] -> ActivationLevels]} : s \in HeatmapShapes}

Thresholds == {-10, 50, 60}

ImageSizes == {<<0, 4>>, <<3, 2>>, <<7, 5>>, <<12, 8>>}

MinAreas == {0, 4, 50}

\* A scan of the given size: black background with tissue (gray 128) in the
\* left part, or in vertical stripes.
ScanOf(size, layout, ow) ==
    [mode |-> "RGB", width |-> size[1], height |-> size[2], layout |-> layout,
     bg |-> Black, fg |-> Gray128, ow |-> ow, oh |-> size[2]]

TissueMasks(size) ==
    IF size[1] * size[2] = 0 THEN {NoTissueMask}
    ELSE {NoTissueMask, ScanOf(size, "rect", (size[1] + 1) \div 2),
          ScanOf(size, "stripes", 0)}

NoDetectCall ==
    [heatmap |-> [h |-> 0, w |-> 0, cells |-> <<>>], original_image_size |-> <<0, 0>>,
     threshold |-> 0, min_area |-> 0, tissue_mask |-> NoTissueMask]

DetectInit ==
    /\ detect_call = NoDetectCall
    /\ detect_ret = [raised |-> FALSE, boxes |-> <<>>]

\* boxes = detect_bounding_boxes(heatmap, size, threshold, min_area, tissue_mask)
DetectBoundingBoxes ==
    /\ detect_call = NoDetectCall
    /\ \E heatmap \in Heatmaps, size \in ImageSizes, threshold \in Thresholds,
          min_area \in MinAreas :
          \E tissue_mask \in TissueMasks(size) :
              /\ detect_call' = [heatmap |-> heatmap, original_image_size |-> size,
                                 threshold |-> threshold, min_area |-> min_area,
                                 tissue_mask |-> tissue_mask]
              /\ detect_ret' = detect_bounding_boxes(heatmap, size, threshold,
                                                     min_area, tissue_mask)
    /\ UNCHANGED <<detector_vars, concurrent_vars, validator_vars, analyze_vars, view_vars,
                   service_vars>>

\* The caller is done with the boxes.
DetectDone ==
    /\ detect_call # NoDetectCall
    /\ detect_call' = NoDetectCall
    /\ detect_ret' = [raised |-> FALSE, boxes |-> <<>>]
    /\ UNCHANGED <<detector_vars, concurrent_vars, validator_vars, analyze_vars, view_vars,
                   service_vars>>

-----------------------------------------------------------------------------
(* create_gradcam_visualization: the filter on the boxes, their ranking    *)
(* and the findings (backend/grad_cam.py).                                 *)

Max2(a, b) == IF a >= b THEN a ELSE b

Min2(a, b) == IF a <= b THEN a ELSE b

\* The box clipped to the image: x1s, y1s, x2s, y2s.
Clipped(image, box) ==
    [x1 |-> Max2(0, box.x1), y1 |-> Max2(0, box.y1),
     x2 |-> Min2(image.width - 1, box.x2), y2 |-> Min2(image.height - 1, box.y2)]

\* if x2s <= x1s or y2s <= y1s: continue
Degenerate(image, box) ==
    LET c == Clipped(image, box) IN c.x2 <= c.x1 \/ c.y2 <= c.y1

\* if not tissue_mask[cy, cx]: continue
CentreOffTissue(image, box) ==
    LET c == Clipped(image, box)
    IN  ~TissueAt(image, (c.x1 + c.x2) \div 2, (c.y1 + c.y2) \div 2)

\* A variant that keeps a box whatever the share of tissue in it.
MostlyBackgroundNever(image, box) == FALSE

\* box_tissue = tissue_mask[y1s:y2s, x1s:x2s];
\* if box_tissue.size > 0 and np.mean(box_tissue) < 0.4: continue
MostlyBackground(image, box) ==
    LET c == Clipped(image, box)
        slice == (c.x1 .. c.x2 - 1) \X (c.y1 .. c.y2 - 1)
        tissue == {p \in slice : TissueAt(image, p[1], p[2])}
    IN  slice # {} /\ 10 * Cardinality(tissue) < 4 * Cardinality(slice)

KeepsBox(image, box) ==
    /\ ~Degenerate(image, box)
    /\ ~CentreOffTissue(image, box)
    /\ ~MostlyBackground(image, box)

\* filtered_boxes, before it is sorted
FilterBoxes(image, boxes) == SelectSeq(boxes, LAMBDA box : KeepsBox(image, box))

\* a[4] > b[4] for the mean activations of two boxes
MoreConfident(a, b) == a.sum * b.count > b.sum * a.count

\* The sorted list with one more box: after the boxes that are at least as
\* confident (sorted is stable, also with reverse=True).
InsertByConfidence(sorted, box) ==
    LET k == Cardinality({i \in DOMAIN sorted : ~MoreConfident(box, sorted[i])})
    IN  SubSeq(sorted, 1, k) \o <<box>> \o SubSeq(sorted, k + 1, Len(sorted))

RECURSIVE SortFrom(_, _)
SortFrom(sorted, boxes) ==
    IF boxes = <<>> THEN sorted
    ELSE SortFrom(InsertByConfidence(sorted, Head(boxes)), Tail(boxes))

\* A variant that leaves the boxes in the order of detection.
SortedByConfidenceNot(boxes) == boxes

\* sorted(filtered_boxes, key=lambda b: b[4], reverse=True)
SortedByConfidence(boxes) == SortFrom(<<>>, boxes)

\* The number of regions that are kept.
MaxRegions == 10

\* sorted(...)[:10]
RankAndCap(boxes) ==
    SubSeq(SortedByConfidence(boxes), 1, Min2(MaxRegions, Len(boxes)))

\* round(n / d, 0) as Python rounds: to the nearest, a tie to the even one.
RoundDiv(n, d) ==
    LET q == n \div d
        r == n % d
    IN  IF 2 * r < d THEN q
        ELSE IF 2 * r > d THEN q + 1
        ELSE IF q % 2 = 0 THEN q ELSE q + 1

\* heatmap[hy1:hy2, hx1:hx2] of analyze_region_characteristics: the cells of
\* the box in heatmap coordinates, its last row and column left out.
RegionSlice(heatmap, size, box) ==
    LET hx1 == Max2(0, (box.x1 * heatmap.w) \div size[1])
        hy1 == Max2(0, (box.y1 * heatmap.h) \div size[2])
        hx2 == Min2(heatmap.w, (box.x2 * heatmap.w) \div size[1])
        hy2 == Min2(heatmap.h, (box.y2 * heatmap.h) \div size[2])
    IN  (hx1 .. hx2 - 1) \X (hy1 .. hy2 - 1)

RECURSIVE SumCells(_, _)
SumCells(heatmap, region) ==
    IF region = {} THEN 0
    ELSE LET p == CHOOSE q \in region : TRUE
         IN  HeatAt(heatmap, p[1], p[2]) + SumCells(heatmap, region \ {p})

RECURSIVE SumSquares(_, _)
SumSquares(heatmap, region) ==
    IF region = {} THEN 0
    ELSE LET p == CHOOSE q \in region : TRUE
         IN  HeatAt(heatmap, p[1], p[2]) * HeatAt(heatmap, p[1], p[2])
             + SumSquares(heatmap, region \ {p})

\* np.std(region) < limit, for a limit in hundredths
StdBelow(heatmap, region, limit) ==
    LET n == Cardinality(region)
        s == SumCells(heatmap, region)
    IN  n * SumSquares(heatmap, region) - s * s < limit * limit * n * n

\* characteristics.get(key, default) on the empty dict
NoCharacteristics ==
    [empty |-> TRUE, mean_intensity |-> [sum |-> 0, count |-> 1], max_intensity |-> 0,
     pattern |-> "", severity |-> "low"]

analyze_region_characteristics(heatmap, size, box) ==
    LET region == RegionSlice(heatmap, size, box)
        max_intensity == MaxOf({HeatAt(heatmap, p[1], p[2]) : p \in region})
    IN  IF region = {} THEN NoCharacteristics
        ELSE [empty |-> FALSE,
              mean_intensity |-> [sum |-> SumCells(heatmap, region),
                                  count |-> Cardinality(region)],
              max_intensity |-> max_intensity,
              pattern |-> IF StdBelow(heatmap, region, 10) THEN "homogeneous"
                          ELSE IF StdBelow(heatmap, region, 20)
                               THEN "slightly heterogeneous"
                               ELSE "heterogeneous",
              severity |-> IF max_intensity > 90 THEN "high"
                           ELSE IF max_intensity > 70 THEN "medium" ELSE "low"]

\* size_info: area_percentage is kept in hundredths of a percent, as
\* round(area_percentage, 2) leaves it.
SizeInfo(size, box) ==
    LET width_px == box.x2 - box.x1
        height_px == box.y2 - box.y1
    IN  [width_px |-> width_px, height_px |-> height_px,
         area_percentage |-> RoundDiv(width_px * height_px * 10000, size[1] * size[2])]

\* aspect_ratio = width_px / height_px if height_px > 0 else 1, against the
\* bounds lo and hi in hundredths: lo <= aspect_ratio <= hi.
AspectWithin(size_info, lo, hi) ==
    LET w == IF size_info.height_px > 0 THEN size_info.width_px ELSE 1
        h == IF size_info.height_px > 0 THEN size_info.height_px ELSE 1
    IN  lo * h <= 100 * w /\ 100 * w <= hi * h

AspectBelow(size_info, bound) ==
    LET w == IF size_info.height_px > 0 THEN size_info.width_px ELSE 1
        h == IF size_info.height_px > 0 THEN size_info.height_px ELSE 1
    IN  100 * w < bound * h

AspectAbove(size_info, bound) ==
    LET w == IF size_info.height_px > 0 THEN size_info.width_px ELSE 1
        h == IF size_info.height_px > 0 THEN size_info.height_px ELSE 1
    IN  100 * w > bound * h

\* shape of extract_detailed_findings
ShapeOf(size_info) ==
    IF AspectWithin(size_info, 80, 120) THEN "roughly circular"
    ELSE IF AspectAbove(size_info, 120) THEN "horizontally elongated"
    ELSE "vertically elongated"

\* The default branch: type_options, as (primary_type, subtype, modifier).
type_options ==
    <<<<"Mass", "Focal Lesion", 108>>,
      <<"Calcifications", "Scattered Calcifications", 105>>,
      <<"Focal/breast asymmetry", "Density Asymmetry", 103>>,
      <<"Breast tissue", "Abnormal Tissue", 100>>>>

Classified(primary_type, subtype, modifier) ==
    [primary_type |-> primary_type, subtypes |-> <<subtype>>,
     confidence_modifier |-> modifier]

\* idx = region_id % len(type_options); ... = type_options[idx]
DefaultType(region_id) ==
    LET option == type_options[(region_id % Len(type_options)) + 1]
    IN  Classified(option[1], option[2], option[3])

\* classify_cancer_type: the primary type, the subtype and the confidence
\* modifier (in hundredths); the descriptive texts are left out.
classify_cancer_type(characteristics, size_info, region_id) ==
    LET max_intensity == characteristics.max_intensity
        pattern == characteristics.pattern
        severity == characteristics.severity
        area_percentage == size_info.area_percentage
        is_very_small == area_percentage < 30
        is_small == 30 <= area_percentage /\ area_percentage < 80
        is_medium == 80 <= area_percentage /\ area_percentage < 250
        is_large == area_percentage >= 250
        is_very_high == max_intensity > 90
        is_high == 75 < max_intensity /\ max_intensity <= 90
        is_moderate == 50 < max_intensity /\ max_intensity <= 75
        is_round == AspectWithin(size_info, 85, 115)
        is_irregular == AspectBelow(size_info, 60) \/ AspectAbove(size_info, 140)
        is_heterogeneous == pattern \in {"heterogeneous", "slightly heterogeneous"}
    IN  IF is_very_small /\ is_very_high
        THEN Classified("Calcifications", "Microcalcifications", 115)
        ELSE IF is_small /\ (is_very_high \/ is_high)
        THEN Classified("Calcifications", "Clustered Calcifications", 112)
        ELSE IF (is_medium \/ is_large) /\ (is_high \/ is_very_high) /\ is_round
        THEN Classified("Mass", "Suspicious Mass", 120)
        ELSE IF (is_medium \/ is_large) /\ is_irregular /\ (is_high \/ is_moderate)
        THEN Classified("Mass", "Irregular Mass", 118)
        ELSE IF is_irregular /\ is_heterogeneous /\ severity \in {"medium", "high"}
        THEN Classified("Architectural distortion", "Tissue Distortion", 110)
        ELSE IF is_medium /\ is_moderate /\ ~is_round
        THEN Classified("Focal/breast asymmetry", "Asymmetric Density", 105)
        ELSE IF is_large /\ max_intensity < 60
        THEN Classified("Skin thickening", "Surface Changes", 100)
        ELSE IF is_medium /\ severity = "medium"
        THEN Classified("Breast tissue", "Tissue Abnormality", 102)
        ELSE DefaultType(region_id)

\* min(99.9, max(1.0, conf * 100 * confidence_modifier)), in percent, as
\* the fraction num / den.
AdjustedConfidence(box, modifier) ==
    LET num == box.sum * modifier
        den == box.count * 100
    IN  IF num < den THEN [num |-> 1, den |-> 1]
        ELSE IF 10 * num > 999 * den THEN [num |-> 999, den |-> 10]
        ELSE [num |-> num, den |-> den]

\* region_info of box number i (from 0) of extract_detailed_findings
RegionInfo(heatmap, size, box, i) ==
    LET size_info == SizeInfo(size, box)
        characteristics == analyze_region_characteristics(heatmap, size, box)
        classification == classify_cancer_type(characteristics, size_info, i)
    IN  [id |-> i + 1,
         confidence |-> AdjustedConfidence(box, classification.confidence_modifier),
         size |-> size_info,
         shape |-> ShapeOf(size_info),
         characteristics |-> characteristics,
         cancer_type |-> classification.primary_type,
         cancer_subtypes |-> classification.subtypes,
         severity |-> characteristics.severity,
         bbox |-> [x1 |-> box.x1, y1 |-> box.y1, x2 |-> box.x2, y2 |-> box.y2]]

\* The opening words of findings["summary"].
SummaryOf(boxes, confidence) ==
    IF Len(boxes) = 0
    THEN IF confidence > 50 THEN "Diffuse abnormal patterns detected"
                            ELSE "No distinct suspicious regions identified"
    ELSE IF Len(boxes) = 1 THEN "Single suspicious region detected"
                           ELSE "Multiple suspicious regions"

\* extract_detailed_findings(heatmap, boxes, original_image_size, confidence)
extract_detailed_findings(heatmap, boxes, size, confidence) ==
    [num_regions |-> Len(boxes),
     regions |-> [i \in DOMAIN boxes |-> RegionInfo(heatmap, size, boxes[i], i - 1)],
     summary |-> SummaryOf(boxes, confidence)]

\* perform_comprehensive_image_analysis raises in analyze_breast_symmetry
\* when a half of the image has no column: np.max of an empty array.
ComprehensiveAnalysisRaises(image) == image.width \div 2 = 0

\* create_heatmap_overlay: the overlay of the image, made from the
\* intensity-based heatmap when the heatmap varies by less than 0.01.
create_heatmap_overlay(image, heatmap) ==
    LET values == {heatmap.cells[k] : k \in DOMAIN heatmap.cells}
    IN  [kind |-> "overlay", of |-> image,
         intensity_based |-> MaxOf(values) - MinOf(values) < 1]

\* original_image.copy()
CopyOf(image) == [kind |-> "copy", of |-> image]

\* draw_bounding_boxes(original_image, filtered_boxes, ...)
draw_bounding_boxes(image, boxes) == [kind |-> "boxes", of |-> image, boxes |-> boxes]

\* draw_bounding_boxes_with_cancer_type(original_image, regions, ...)
draw_bounding_boxes_with_cancer_type(image, regions) ==
    [kind |-> "typed boxes", of |-> image,
     labels |-> [i \in DOMAIN regions |-> regions[i].cancer_type]]

\* return None, None, None, None, None, error_msg, None
GradcamError(error_msg) == <<None, None, None, None, None, <<error_msg>>, None>>

NoLocals == [heatmap |-> None, boxes |-> <<>>, passed |-> <<>>, filtered |-> <<>>]

\* threshold=0.5 and min_area=50 of the call of detect_bounding_boxes
GradcamThreshold == 50

GradcamMinArea == 50

\* create_gradcam_visualization(original_image, preprocessed_img, model,
\* confidence): the 7-tuple it returns and, as locals, its heatmap, boxes,
\* filtered_boxes before the sort (passed) and after it (filtered).
\* model.gradients tells what make_gradcam_heatmap does on the input: "ok"
\* (it returns model.heatmap), "none" (it returns None) or "raises".
create_gradcam_visualization(original_image, model, confidence) ==
    IF ~model.has_conv
    THEN [ret |-> GradcamError("No convolutional layer found in model"),
          locals |-> NoLocals]
    ELSE IF model.gradients = "raises"
    THEN [ret |-> GradcamError("Error generating Grad-CAM: "), locals |-> NoLocals]
    ELSE IF model.gradients = "none"
    THEN [ret |-> GradcamError("Heatmap generation returned None - gradient calculation may have failed"),
          locals |-> NoLocals]
    ELSE
    LET heatmap == model.heatmap
        size == <<original_image.width, original_image.height>>
        overlay_image == create_heatmap_overlay(original_image, heatmap)
        detected == detect_bounding_boxes(heatmap, size, GradcamThreshold,
                                          GradcamMinArea, original_image)
        passed == FilterBoxes(original_image, detected.boxes)
        filtered_boxes == RankAndCap(passed)
        findings == extract_detailed_findings(heatmap, filtered_boxes, size, confidence)
        detailed_findings == findings @@ [comprehensive_analysis |-> "present"]
        locals == [heatmap |-> heatmap, boxes |-> detected.boxes, passed |-> passed,
                   filtered |-> filtered_boxes]
    IN  IF detected.raised
        THEN [ret |-> GradcamError("Error generating Grad-CAM: "),
              locals |-> [NoLocals EXCEPT !.heatmap = heatmap]]
        ELSE IF ComprehensiveAnalysisRaises(original_image)
        THEN [ret |-> GradcamError("Error generating Grad-CAM: "), locals |-> locals]
        ELSE [ret |-> <<heatmap, overlay_image, [kind |-> "heatmap"],
                        IF findings.regions # <<>>
                        THEN draw_bounding_boxes(original_image, filtered_boxes)
                        ELSE CopyOf(original_image),
                        IF findings.regions # <<>>
                        THEN draw_bounding_boxes_with_cancer_type(original_image,
                                                                  findings.regions)
                        ELSE CopyOf(original_image),
                        None, detailed_findings>>,
              locals |-> locals]

-----------------------------------------------------------------------------
(* The /analyze endpoint (backend/main.py): analyze_image and              *)
(* run_full_analysis, which calls create_gradcam_visualization.            *)
(*                                                                         *)
(* The heatmaps of the model hold up to MaxBlocks blocks of 2 x 2 cells,   *)
(* laid out four to a row with a cell between them, so that every block    *)
(* is a region of its own.  levels[b] is the activation of block b.        *)

\* The largest number of blocks of activation in a heatmap.
MaxBlocks == 12

BlocksPerRow == 4

BlockShape == [h |-> 3 * ((MaxBlocks + BlocksPerRow - 1) \div BlocksPerRow) - 1,
               w |-> 3 * BlocksPerRow - 1]

BlockHeatmap(levels) ==
    [h |-> BlockShape.h, w |-> BlockShape.w,
     cells |-> [k \in 1 .. BlockShape.h * BlockShape.w |->
                  LET x == (k - 1) % BlockShape.w
                      y == (k - 1) \div BlockShape.w
                      b == (y \div 3) * BlocksPerRow + (x \div 3) + 1
                  IN  IF x % 3 < 2 /\ y % 3 < 2 /\ b <= Len(levels)
                      THEN levels[b] ELSE 0]]

\* The activations of n blocks: falling or rising along the rows, all at
\* the maximum, faint but for the first, or alternating.  A heatmap that
\* is not all zero has the maximum 100 (make_gradcam_heatmap divides by it).
BlockLevels(n, pattern) ==
    [b \in 1 .. n |->
        CASE pattern = "falling" -> 100 - 3 * (b - 1)
          [] pattern = "rising" -> 100 - 3 * (n - b)
          [] pattern = "level" -> 100
          [] pattern = "faint" -> IF b = 1 THEN 100 ELSE 60
          [] pattern = "alternating" -> IF b = 1 THEN 100
                                        ELSE IF b % 2 = 1 THEN 100 - b ELSE 70 - b]

LevelPatterns == {"falling", "rising", "level", "faint", "alternating"}

\* A heatmap with one region around a cell without activation: the three
\* columns and four rows at the top left, without cell (1, 1).
RingHeatmap ==
    [h |-> BlockShape.h, w |-> BlockShape.w,
     cells |-> [k \in 1 .. BlockShape.h * BlockShape.w |->
                  LET x == (k - 1) % BlockShape.w
                      y == (k - 1) \div BlockShape.w
                  IN  IF x <= 2 /\ y <= 3 /\ <<x, y>> # <<1, 1>> THEN 100 ELSE 0]]

ModelHeatmaps ==
    {BlockHeatmap(BlockLevels(n, pattern)) : n \in 0 .. MaxBlocks, pattern \in LevelPatterns}
    \cup {RingHeatmap}

\* The uploads after convert("RGB"): four pixels to a heatmap cell and all
\* tissue, tissue in the left half only, no tissue, tissue in the 3
\* columns on the left, tissue in every fourth column; three pixels to a
\* cell; a single column of pixels.
FullSize == <<4 * BlockShape.w, 4 * BlockShape.h>>

Scans ==
    {ScanOf(FullSize, "rect", FullSize[1]),
     ScanOf(FullSize, "rect", FullSize[1] \div 2),
     ScanOf(FullSize, "rect", 0),
     ScanOf(FullSize, "rect", 3),
     ScanOf(FullSize, "lines", 0),
     ScanOf(<<3 * BlockShape.w, 3 * BlockShape.h>>, "rect", 3 * BlockShape.w),
     ScanOf(<<1, FullSize[2]>>, "rect", 1)}

\* Image.open(...) raises on these bytes.
UnreadableImage == [mode |-> "unreadable"]

\* The sigmoid output of the model, in hundredths.
Predictions == {20, 80}

WorkingModel(heatmap) ==
    [loadable |-> TRUE, has_conv |-> TRUE, gradients |-> "ok", heatmap |-> heatmap]

FlatHeatmap == BlockHeatmap(<<>>)

\* A model file that is missing, a model without a Conv2D layer, one whose
\* gradients are None, one whose gradient computation raises.
FailingModels ==
    {[loadable |-> FALSE, has_conv |-> TRUE, gradients |-> "ok", heatmap |-> FlatHeatmap],
     [loadable |-> TRUE, has_conv |-> FALSE, gradients |-> "ok", heatmap |-> FlatHeatmap],
     [loadable |-> TRUE, has_conv |-> TRUE, gradients |-> "none", heatmap |-> FlatHeatmap],
     [loadable |-> TRUE, has_conv |-> TRUE, gradients |-> "raises", heatmap |-> FlatHeatmap]}

Requests ==
    {[content_type |-> <<"image/png">>, image |-> image, model |-> WorkingModel(heatmap),
      prediction |-> prediction] :
        image \in Scans, heatmap \in ModelHeatmaps, prediction \in Predictions}
    \cup
    {[content_type |-> <<"image/jpeg", "2000">>, image |-> image, model |-> model,
      prediction |-> 80] : image \in Scans, model \in FailingModels}
    \cup
    {[content_type |-> content_type, image |-> image,
      model |-> WorkingModel(FlatHeatmap), prediction |-> 20] :
        content_type \in ContentTypes, image \in {UnreadableImage, ScanOf(FullSize, "rect", 0)}}

NoRequest ==
    [content_type |-> <<>>, image |-> UnreadableImage, model |-> WorkingModel(FlatHeatmap),
     prediction |-> 0]

NoResponse == [status |-> 0]

HTTPException(status_code, detail) == [status |-> status_code, detail |-> detail]

AnalyzeInit ==
    /\ request = NoRequest
    /\ analyze_pc = "idle"
    /\ gradcam_locals = NoLocals
    /\ gradcam_ret = None
    /\ response = NoResponse

OtherThanAnalyze ==
    <<detector_vars, concurrent_vars, validator_vars, detect_vars, view_vars, service_vars>>

\* A client posts a file to /analyze.
Post ==
    /\ analyze_pc = "idle"
    /\ request' \in Requests
    /\ analyze_pc' = "posted"
    /\ UNCHANGED <<gradcam_locals, gradcam_ret, response, OtherThanAnalyze>>

\* file.content_type.startswith("image/"), for the content types of the model
StartsWithImage(content_type) == content_type[1] \in {"image/png", "image/jpeg"}

\* analyze_image up to the call of run_full_analysis: the content type is
\* tested (None has no startswith: the server answers 500) and the image
\* is opened and converted.
AnalyzeImage ==
    /\ analyze_pc = "posted"
    /\ IF request.content_type = <<>>
       THEN /\ response' = HTTPException(500, "Internal Server Error")
            /\ analyze_pc' = "responded"
       ELSE IF ~StartsWithImage(request.content_type)
       THEN /\ response' = HTTPException(400, "Please upload an image file.")
            /\ analyze_pc' = "responded"
       ELSE IF request.image = UnreadableImage
       THEN /\ response' = HTTPException(400, "Unable to read image file.")
            /\ analyze_pc' = "responded"
       ELSE /\ response' = response
            /\ analyze_pc' = "opened"
    /\ UNCHANGED <<request, gradcam_locals, gradcam_ret, OtherThanAnalyze>>

\* run_full_analysis up to the call of create_gradcam_visualization:
\* get_model() raises when the model cannot be loaded.
Predict ==
    /\ analyze_pc = "opened"
    /\ IF ~request.model.loadable
       THEN /\ response' = HTTPException(500, "Analysis failed: ")
            /\ analyze_pc' = "responded"
       ELSE /\ response' = response
            /\ analyze_pc' = "predicted"
    /\ UNCHANGED <<request, gradcam_locals, gradcam_ret, OtherThanAnalyze>>

\* ... = create_gradcam_visualization(image, preprocessed, model, confidence)
CreateGradcamVisualization ==
    /\ analyze_pc = "predicted"
    /\ LET made == create_gradcam_visualization(request.image, request.model,
                                                request.prediction)
       IN  /\ gradcam_ret' = made.ret
           /\ gradcam_locals' = made.locals
    /\ analyze_pc' = "returned"
    /\ UNCHANGED <<request, response, OtherThanAnalyze>>

\* The number of names the result of create_gradcam_visualization is
\* unpacked into in run_full_analysis.
UnpackTargets == 6

\* risk_level of run_full_analysis, from malignant_prob = confidence * 100
RiskLevel(malignant_prob) ==
    IF malignant_prob > 90 THEN "Very High Risk"
    ELSE IF malignant_prob > 75 THEN "High Risk"
    ELSE IF malignant_prob > 60 THEN "Moderate-High Risk"
    ELSE IF malignant_prob > 40 THEN "Moderate Risk"
    ELSE IF malignant_prob > 25 THEN "Low-Moderate Risk"
    ELSE IF malignant_prob > 10 THEN "Low Risk"
    ELSE "Very Low Risk"

\* get_image_statistics: the least and the greatest channel value.
get_image_statistics(image) ==
    LET values == UNION {{ColorAt(image, x, y)[1], ColorAt(image, x, y)[2],
                          ColorAt(image, x, y)[3]} :
                             x \in 1 .. image.width, y \in 1 .. image.height}
    IN  [min_intensity |-> MinOf(values), max_intensity |-> MaxOf(values)]

\* pil_to_base64(image): None stays None.
pil_to_base64(image) == IF image = None THEN None ELSE <<"base64", image>>

\* The JSON body of the answer of analyze_image.
AnalysisBody(image, confidence, result) ==
    [result |-> IF confidence > 50 THEN "Malignant (Cancerous)"
                                   ELSE "Benign (Non-Cancerous)",
     probability |-> IF confidence > 50 THEN confidence ELSE 100 - confidence,
     confidence |-> confidence,
     benign_prob |-> 100 - confidence,
     malignant_prob |-> confidence,
     risk_level |-> RiskLevel(confidence),
     stats |-> get_image_statistics(image),
     heatmap_error |-> result[5],
     image_size |-> [width |-> image.width, height |-> image.height],
     findings |-> result[6],
     images |-> [original |-> pil_to_base64(image), overlay |-> pil_to_base64(result[2]),
                 heatmap_only |-> pil_to_base64(result[3]), bbox |-> pil_to_base64(result[4])]]

\* The rest of run_full_analysis and of analyze_image: the tuple is
\* unpacked into UnpackTargets names, which raises ValueError when their
\* number is not the length of the tuple; then the answer is built.
Unpack ==
    /\ analyze_pc = "returned"
    /\ response' = IF Len(gradcam_ret) # UnpackTargets
                   THEN HTTPException(500, "Analysis failed: too many values to unpack")
                   ELSE [status |-> 200,
                         body |-> AnalysisBody(request.image, request.prediction,
                                               gradcam_ret)]
    /\ analyze_pc' = "responded"
    /\ UNCHANGED <<request, gradcam_locals, gradcam_ret, OtherThanAnalyze>>

\* The answer is sent and the request is over.
Answer ==
    /\ analyze_pc = "responded"
    /\ request' = NoRequest
    /\ analyze_pc' = "idle"
    /\ gradcam_locals' = NoLocals
    /\ gradcam_ret' = None
    /\ response' = NoResponse
    /\ UNCHANGED OtherThanAnalyze

-----------------------------------------------------------------------------
(* generate_mammogram_view_analysis in auto mode (backend/grad_cam.py):    *)
(* the view and the laterality are read from a text label in the image or  *)
(* come from the geometry of the image.  A text is a sequence of           *)
(* characters; a label is a pair of a laterality and a view, each of them  *)
(* None or a one-part string.                                              *)

LabelOf(laterality, view) == [laterality |-> laterality, view |-> view]

NoLabel == LabelOf(None, None)

\* pattern in text
Contains(text, pattern) ==
    \E i \in 1 .. Len(text) - Len(pattern) + 1 :
        SubSeq(text, i, i + Len(pattern) - 1) = pattern

\* text.startswith(prefix)
StartsWith(text, prefix) ==
    Len(text) >= Len(prefix) /\ SubSeq(text, 1, Len(prefix)) = prefix

\* [A-Z0-9\-\s], the characters re.sub leaves in the text
KeptCharacters ==
    {"A", "B", "C", "D", "E", "F", "G", "H", "I", "J", "K", "L", "M", "N", "O", "P",
     "Q", "R", "S", "T", "U", "V", "W", "X", "Y", "Z", "0", "1", "2", "3", "4", "5",
     "6", "7", "8", "9", "-", " "}

\* text.strip()
RECURSIVE Strip(_)
Strip(text) ==
    IF text = <<>> THEN text
    ELSE IF Head(text) = " " THEN Strip(Tail(text))
    ELSE IF text[Len(text)] = " " THEN Strip(SubSeq(text, 1, Len(text) - 1))
    ELSE text

mlo_patterns ==
    <<<<"M", "L", "O">>, <<"M", "-", "L", "O">>, <<"M", " ", "L", " ", "O">>,
      <<"M", "L", "C">>, <<"M", "L", "0">>, <<"W", "L", "O">>, <<"N", "L", "O">>>>

cc_patterns == <<<<"C", "C">>, <<"C", "-", "C">>, <<"C", " ", "C">>>>

\* full_patterns, in the order of the dict: the pattern and its label
full_patterns ==
    <<<<<<"R", "M", "L", "O">>, LabelOf(<<"R">>, <<"MLO">>)>>,
      <<<<"R", "-", "M", "L", "O">>, LabelOf(<<"R">>, <<"MLO">>)>>,
      <<<<"R", " ", "M", "L", "O">>, LabelOf(<<"R">>, <<"MLO">>)>>,
      <<<<"L", "M", "L", "O">>, LabelOf(<<"L">>, <<"MLO">>)>>,
      <<<<"L", "-", "M", "L", "O">>, LabelOf(<<"L">>, <<"MLO">>)>>,
      <<<<"L", " ", "M", "L", "O">>, LabelOf(<<"L">>, <<"MLO">>)>>,
      <<<<"R", "C", "C">>, LabelOf(<<"R">>, <<"CC">>)>>,
      <<<<"R", "-", "C", "C">>, LabelOf(<<"R">>, <<"CC">>)>>,
      <<<<"R", " ", "C", "C">>, LabelOf(<<"R">>, <<"CC">>)>>,
      <<<<"L", "C", "C">>, LabelOf(<<"L">>, <<"CC">>)>>,
      <<<<"L", "-", "C", "C">>, LabelOf(<<"L">>, <<"CC">>)>>,
      <<<<"L", " ", "C", "C">>, LabelOf(<<"L">>, <<"CC">>)>>>>

\* One of the patterns is in the text.
AnyIn(patterns, text) == \E k \in DOMAIN patterns : Contains(text, patterns[k])

\* text.startswith(side) or side + '-' in text or ' ' + side + ' ' in text
NamesSide(text, side) ==
    \/ StartsWith(text, <<side>>)
    \/ Contains(text, <<side, "-">>)
    \/ Contains(text, <<" ", side, " ">>)

\* parse_mammogram_label(text), for a text in upper case
parse_mammogram_label(raw) ==
    IF raw = <<>> THEN NoLabel
    ELSE
    LET text == SelectSeq(Strip(raw), LAMBDA c : c \in KeptCharacters)
        view_type == IF AnyIn(mlo_patterns, text) THEN <<"MLO">>
                     ELSE IF AnyIn(cc_patterns, text) THEN <<"CC">>
                     ELSE None
        laterality == IF NamesSide(text, "R") THEN <<"R">>
                      ELSE IF NamesSide(text, "L") THEN <<"L">>
                      ELSE None
        full == {k \in DOMAIN full_patterns : Contains(text, full_patterns[k][1])}
    IN  IF full # {} THEN full_patterns[MinOf(full)][2]
        ELSE LabelOf(laterality, view_type)

\* A corner of the RGB image as detect_colored_text_label measures it: the
\* number of its pixels, of its text pixels and of its blue pixels, the
\* number of columns with text and its width.
ColoredCornerHasLabel(corner) ==
    /\ corner.size # 0
    /\ corner.text_pixel_count > 50
    /\ (corner.blue_pixel_count > 30 \/ corner.text_width > 10)

\* detect_colored_text_label(rgb_array), from the corners in the order in
\* which it looks at them
detect_colored_text_label(corners) ==
    LET found == {k \in DOMAIN corners : ColoredCornerHasLabel(corners[k])}
        corner == corners[MinOf(found)]
    IN  IF found = {} THEN NoLabel
        ELSE IF \/ corner.text_width > 20
                \/ 100 * corner.text_width > 8 * Max2(corner.region_w, 1)
        THEN LabelOf(<<"R">>, <<"MLO">>)
        ELSE LabelOf(<<"R">>, <<"CC">>)

\* A corner of the grayscale image as detect_text_label_pattern_based
\* measures it: text_ratio lies in (0.003, 0.55) and the text is more than
\* 3 columns wide and more than 2 rows high.
GrayCornerHasText(corner) ==
    /\ corner.region_h * corner.region_w # 0
    /\ corner.region_h >= 5
    /\ corner.region_w >= 5
    /\ 1000 * corner.text_pixel_count > 3 * corner.region_h * corner.region_w
    /\ 100 * corner.text_pixel_count < 55 * corner.region_h * corner.region_w
    /\ corner.text_width > 3
    /\ corner.text_height > 2

\* is_likely_mlo of a corner with text
LikelyMLO(corner) ==
    LET text_width == corner.text_width
        text_height == Max2(corner.text_height, 1)
        region_w == Max2(corner.region_w, 1)
    IN  IF \/ (text_width > 30 /\ 10 * text_width > 28 * text_height)
           \/ 100 * text_width > 15 * region_w
        THEN TRUE
        ELSE IF \/ (text_width < 22 /\ 10 * text_width < 23 * text_height)
                \/ (100 * text_width < 9 * region_w /\ text_width < 25)
        THEN FALSE
        ELSE text_width > 25 \/ 100 * text_width > 12 * region_w

\* detect_text_label_pattern_based(img_array)
detect_text_label_pattern_based(corners) ==
    LET found == {k \in DOMAIN corners : GrayCornerHasText(corners[k])}
    IN  IF found = {} THEN NoLabel
        ELSE IF LikelyMLO(corners[MinOf(found)]) THEN LabelOf(None, <<"MLO">>)
        ELSE LabelOf(None, <<"CC">>)

\* detect_text_label_in_image(img_array): image.ocr_reads are the texts
\* pytesseract reads, in the order of the calls.
detect_text_label_in_image(image) ==
    LET parsed == [k \in DOMAIN image.ocr_reads |-> parse_mammogram_label(image.ocr_reads[k])]
        found == {k \in DOMAIN parsed : image.ocr_reads[k] # <<>> /\ parsed[k].view # None}
    IN  IF image.OCR_AVAILABLE /\ found # {} THEN parsed[MinOf(found)]
        ELSE detect_text_label_pattern_based(image.gray_corners)

\* detect_mammogram_view_type(img_array): a text label, height / width >
\* 1.2, or else the scores of the shape of the tissue (image.scored_view).
detect_mammogram_view_type(image) ==
    LET text_view == detect_text_label_in_image(image).view
    IN  IF text_view # None THEN text_view
        ELSE IF 10 * image.height > 12 * image.width THEN <<"MLO">>
        ELSE image.scored_view

\* detect_breast_laterality(img_array), from the scores of the two halves
\* and the variances of the two edges
detect_breast_laterality(image) ==
    IF 100 * image.left_score > 105 * image.right_score THEN <<"R">>
    ELSE IF 100 * image.right_score > 105 * image.left_score THEN <<"L">>
    ELSE IF image.left_edge_var > image.right_edge_var THEN <<"R">>
    ELSE <<"L">>

\* Corners as detect_colored_text_label measures them: no text, blue text
\* in a wide and in a narrow band, and a few bright pixels that are no label.
ColoredCorner(text_pixel_count, blue_pixel_count, text_width) ==
    [size |-> 3000, region_w |-> 100, text_pixel_count |-> text_pixel_count,
     blue_pixel_count |-> blue_pixel_count, text_width |-> text_width]

ColoredCorners ==
    {<<ColoredCorner(0, 0, 0)>>,
     <<ColoredCorner(0, 0, 0), ColoredCorner(120, 100, 25)>>,
     <<ColoredCorner(60, 20, 9), ColoredCorner(80, 40, 6)>>,
     <<ColoredCorner(60, 20, 9)>>}

\* Corners as detect_text_label_pattern_based measures them.
GrayCorner(text_pixel_count, text_width, text_height) ==
    [region_h |-> 40, region_w |-> 100, text_pixel_count |-> text_pixel_count,
     text_width |-> text_width, text_height |-> text_height]

GrayCorners ==
    {<<GrayCorner(0, 0, 0)>>,
     <<GrayCorner(3000, 100, 40), GrayCorner(300, 35, 10)>>,
     <<GrayCorner(100, 8, 8)>>}

\* What pytesseract reads in the corners.
OcrReads ==
    {<<>>,
     <<<<>>, <<"R">>>>,
     <<<<"R">>, <<"L", "C", "C">>>>,
     <<<<"R", "-", "M", "L", "O", " ">>>>,
     <<<<"L">>, <<"M", "L", "0">>>>,
     <<<<"1", "C", "-", "C">>>>}

ViewImages ==
    {[mode |-> mode, colored_corners |-> colored_corners, gray_corners |-> gray_corners,
      OCR_AVAILABLE |-> ocr[1], ocr_reads |-> ocr[2],
      width |-> shape[1], height |-> shape[2], scored_view |-> shape[3],
      left_score |-> sides[1], right_score |-> sides[2],
      left_edge_var |-> sides[3], right_edge_var |-> sides[4]] :
        mode \in {"L", "RGB"}, colored_corners \in ColoredCorners,
        gray_corners \in GrayCorners,
        ocr \in {<<FALSE, <<<<"R", "M", "L", "O">>>>>>} \cup ({TRUE} \X OcrReads),
        shape \in {<<100, 130, <<"CC">>>>, <<100, 100, <<"CC">>>>, <<120, 100, <<"MLO">>>>},
        sides \in {<<80, 40, 5, 9>>, <<40, 80, 9, 5>>, <<50, 50, 9, 5>>, <<50, 51, 5, 9>>}}

NoViewImage ==
    [mode |-> "L", colored_corners |-> <<>>, gray_corners |-> <<>>,
     OCR_AVAILABLE |-> FALSE, ocr_reads |-> <<>>, width |-> 1, height |-> 1,
     scored_view |-> <<"CC">>, left_score |-> 0, right_score |-> 0,
     left_edge_var |-> 0, right_edge_var |-> 0]

NoViewLocals ==
    [text_laterality |-> None, text_view |-> None, detected_view |-> None,
     detected_laterality |-> None, view_code |-> None]

ViewInit ==
    /\ view_image = NoViewImage
    /\ view_pc = "idle"
    /\ view_locals = NoViewLocals
    /\ consulted = <<>>

OtherThanView ==
    <<detector_vars, concurrent_vars, validator_vars, detect_vars, analyze_vars,
      service_vars>>

\* generate_mammogram_view_analysis(image, ..., view_type="auto") is called:
\* text_laterality, text_view = None, None
GenerateViewAnalysis ==
    /\ view_pc = "idle"
    /\ view_image' \in ViewImages
    /\ view_pc' = "colored"
    /\ view_locals' = NoViewLocals
    /\ consulted' = <<>>
    /\ UNCHANGED OtherThanView

\* if rgb_array is not None: ... = detect_colored_text_label(rgb_array)
DetectColoredTextLabel ==
    /\ view_pc = "colored"
    /\ IF view_image.mode # "L"
       THEN LET label == detect_colored_text_label(view_image.colored_corners)
            IN  /\ view_locals' = [view_locals EXCEPT !.text_laterality = label.laterality,
                                                      !.text_view = label.view]
                /\ consulted' = Append(consulted, "detect_colored_text_label")
       ELSE UNCHANGED <<view_locals, consulted>>
    /\ view_pc' = "text"
    /\ UNCHANGED <<view_image, OtherThanView>>

\* if not text_view: ... = detect_text_label_in_image(img_array)
DetectTextLabelInImage ==
    /\ view_pc = "text"
    /\ IF view_locals.text_view = None
       THEN LET label == detect_text_label_in_image(view_image)
            IN  /\ view_locals' = [view_locals EXCEPT !.text_laterality = label.laterality,
                                                      !.text_view = label.view]
                /\ consulted' = Append(consulted, "detect_text_label_in_image")
       ELSE UNCHANGED <<view_locals, consulted>>
    /\ view_pc' = "view"
    /\ UNCHANGED <<view_image, OtherThanView>>

\* A variant in which no text label counts.
IsTruthyNever(value) == FALSE

\* if value: for a value that is None or a string that is not empty
IsTruthy(value) == value # None

\* if text_view: detected_view = text_view
\* else: detected_view = detect_mammogram_view_type(img_array)
DetectView ==
    /\ view_pc = "view"
    /\ IF IsTruthy(view_locals.text_view)
       THEN /\ view_locals' = [view_locals EXCEPT !.detected_view = view_locals.text_view]
            /\ consulted' = consulted
       ELSE /\ view_locals' = [view_locals EXCEPT
                                  !.detected_view = detect_mammogram_view_type(view_image)]
            /\ consulted' = Append(consulted, "detect_mammogram_view_type")
    /\ view_pc' = "laterality"
    /\ UNCHANGED <<view_image, OtherThanView>>

\* if text_laterality: detected_laterality = text_laterality
\* else: detected_laterality = detect_breast_laterality(img_array)
\* view_code = f"{detected_laterality}{detected_view}"
DetectLaterality ==
    /\ view_pc = "laterality"
    /\ LET detected_laterality == IF IsTruthy(view_locals.text_laterality)
                                  THEN view_locals.text_laterality
                                  ELSE detect_breast_laterality(view_image)
       IN  /\ view_locals' = [view_locals EXCEPT
                                 !.detected_laterality = detected_laterality,
                                 !.view_code = detected_laterality \o view_locals.detected_view]
           /\ consulted' = IF IsTruthy(view_locals.text_laterality) THEN consulted
                           ELSE Append(consulted, "detect_breast_laterality")
    /\ view_pc' = "detected"
    /\ UNCHANGED <<view_image, OtherThanView>>

\* The analysis is returned and the call is over.
ViewReturned ==
    /\ view_pc = "detected"
    /\ view_image' = NoViewImage
    /\ view_pc' = "idle"
    /\ view_locals' = NoViewLocals
    /\ consulted' = <<>>
    /\ UNCHANGED OtherThanView

-----------------------------------------------------------------------------
(* Specifications of the detector.                                         *)

DetectorInit ==
    /\ uploaded_hashes = <<>>
    /\ uploaded_phashes = <<>>
    /\ call = NoCall("init")
    /\ ret = NotDuplicate
    /\ accepted = {}
    /\ repeated = FALSE
    /\ flagged_before = None

Idle == [pc |-> "idle", image_data |-> 0, image |-> BrokenImage, filename |-> "",
         ret |-> NotDuplicate]

ConcurrentInit ==
    /\ requests = [t \in Threads |-> Idle]
    /\ calls_made = 0
    /\ raced = FALSE

-----------------------------------------------------------------------------
(* The risk assessment of run_full_analysis (backend/main.py): the label   *)
(* comes from the threshold ladder written out in run_full_analysis, the   *)
(* icon and the colour from get_risk_level.  A confidence is a number of   *)
(* hundredths, so that confidence * 100 is that number of percent.         *)

\* The sigmoid outputs of the model, 0.00 to 1.00.
Confidences == 0 .. 100

\* get_risk_level(confidence): the triple (level, icon, colour)
get_risk_level(confidence) ==
    IF confidence > 50
    THEN LET malignant_prob == confidence
         IN  IF malignant_prob >= 90 THEN <<"Very High Risk", "red circle", "#ff0000">>
             ELSE IF malignant_prob >= 75 THEN <<"High Risk", "orange circle", "#ff6600">>
             ELSE IF malignant_prob >= 60
                  THEN <<"Moderate-High Risk", "yellow circle", "#ffaa00">>
             ELSE <<"Moderate Risk", "yellow circle", "#ffcc00">>
    ELSE LET benign_prob == 100 - confidence
         IN  IF benign_prob >= 90 THEN <<"Very Low Risk", "green circle", "#00cc00">>
             ELSE IF benign_prob >= 75 THEN <<"Low Risk", "green circle", "#33cc33">>
             ELSE IF benign_prob >= 60
                  THEN <<"Low-Moderate Risk", "yellow circle", "#99cc00">>
             ELSE <<"Moderate Risk", "yellow circle", "#cccc00">>

NoRiskLocals ==
    [confidence |-> 0, risk_level |-> "", risk_level2 |-> "",
     risk_icon |-> "", risk_color |-> ""]

RiskInit ==
    /\ risk_pc = "idle"
    /\ risk_locals = NoRiskLocals

OtherThanRisk ==
    <<detector_vars, concurrent_vars, validator_vars, gradcam_vars, streamlit_vars,
      model_vars, batch_vars, cc_vars>>

\* The ladder of run_full_analysis, for the confidence the model returned.
RunLadder ==
    /\ risk_pc = "idle"
    /\ \E confidence \in Confidences :
          risk_locals' = [NoRiskLocals EXCEPT !.confidence = confidence,
                                              !.risk_level = RiskLevel(confidence)]
    /\ risk_pc' = "labelled"
    /\ UNCHANGED OtherThanRisk

\* risk_level2, risk_icon, risk_color = get_risk_level(confidence)
GetRiskLevel ==
    /\ risk_pc = "labelled"
    /\ LET risk == get_risk_level(risk_locals.confidence)
       IN  risk_locals' = [risk_locals EXCEPT !.risk_level2 = risk[1],
                                              !.risk_icon = risk[2],
                                              !.risk_color = risk[3]]
    /\ risk_pc' = "assessed"
    /\ UNCHANGED OtherThanRisk

\* The analysis dictionary is built and the names go out of scope.
RiskReturned ==
    /\ risk_pc = "assessed"
    /\ risk_pc' = "idle"
    /\ risk_locals' = NoRiskLocals
    /\ UNCHANGED OtherThanRisk

-----------------------------------------------------------------------------
(* The Streamlit app (backend/app.py).  Every click reruns main(), which   *)
(* shows the page named by st.session_state.current_page; the handler of   *)
(* the button that was clicked runs inside that run.                       *)

\* The number of names the result of create_gradcam_visualization is
\* unpacked into in show_upload_page.
StreamlitUnpackTargets == 5

\* The files a user uploads, with the model file that is on disk and the
\* output of the model on the image.
StreamlitUploads == {r \in Requests : r.image # UnreadableImage}

\* The session after the first run of main(): no 'analysis_data' key.
NewSession == [current_page |-> "upload", analysis_complete |-> FALSE, analysis_data |-> None]

NoRun == [event |-> "open", outcome |-> "upload page"]

StreamlitInit ==
    /\ session_state = NewSession
    /\ uploaded_file = None
    /\ last_run = NoRun

OtherThanStreamlit ==
    <<detector_vars, concurrent_vars, validator_vars, gradcam_vars, risk_vars, model_vars,
      batch_vars, cc_vars>>

\* st.session_state.analysis_data of show_upload_page
analysis_data(file, made) ==
    [image |-> file.image,
     result |-> IF file.prediction > 50 THEN "Malignant (Cancerous)"
                ELSE "Benign (Non-Cancerous)",
     confidence |-> file.prediction,
     risk_level |-> RiskLevel(file.prediction),
     overlay_image |-> made[2], heatmap_only |-> made[3], bbox_image |-> made[4],
     heatmap_error |-> made[5]]

\* The handler of the Analyze button: the session it leaves and how the
\* run ends.
AnalyzeClicked(session, file) ==
    IF ~file.model.loadable
    THEN [session |-> session, outcome |-> "Error loading model"]
    ELSE LET made == create_gradcam_visualization(file.image, file.model,
                                                  file.prediction).ret
         IN  IF Len(made) # StreamlitUnpackTargets
             THEN [session |-> session, outcome |-> "ValueError"]
             ELSE [session |-> [current_page |-> "results", analysis_complete |-> TRUE,
                                analysis_data |-> analysis_data(file, made)],
                   outcome |-> "results page"]

\* The handler of a Back button of show_results_page.
BackClicked(session) ==
    [session |-> [session EXCEPT !.current_page = "upload",
                                 !.analysis_complete = FALSE],
     outcome |-> "upload page"]

\* The user puts a file into the empty uploader of the upload page.
ChooseFile ==
    /\ session_state.current_page = "upload"
    /\ uploaded_file = None
    /\ uploaded_file' \in StreamlitUploads
    /\ last_run' = [event |-> "file", outcome |-> "upload page"]
    /\ UNCHANGED <<session_state, OtherThanStreamlit>>

\* The user removes the file from the uploader.
RemoveFile ==
    /\ session_state.current_page = "upload"
    /\ uploaded_file # None
    /\ uploaded_file' = None
    /\ last_run' = [event |-> "file", outcome |-> "upload page"]
    /\ UNCHANGED <<session_state, OtherThanStreamlit>>

\* main() runs after a click on a button of the page that is shown.
Main ==
    /\ \E event \in {"Analyze", "Back"} :
          /\ event = "Analyze" =>
                session_state.current_page = "upload" /\ uploaded_file # None
          /\ event = "Back" => session_state.current_page = "results"
          /\ LET done == IF event = "Analyze"
                         THEN AnalyzeClicked(session_state, uploaded_file)
                         ELSE BackClicked(session_state)
             IN  /\ session_state' = done.session
                 /\ last_run' = [event |-> event, outcome |-> done.outcome]
    /\ UNCHANGED <<uploaded_file, OtherThanStreamlit>>

-----------------------------------------------------------------------------
(* get_model of the two servers (backend/main.py and app.py): the global   *)
(* _model of the process and the calls that read and set it.  The servers  *)
(* call get_model from coroutines that do not await inside it, so a call   *)
(* is one step.                                                            *)

\* Number of calls of get_model in one process.
MaxGetModelCalls == 4

Servers == {"backend/main.py", "app.py"}

\* What a call finds: whether MODEL_PATH exists, whether the download of
\* app.py puts the file there, which file it is, and what load_model and
\* compile do: load_model returns ("ok"), raises the TypeError of a Keras
\* version mismatch ("mismatch") or raises otherwise ("error").
Environments ==
    [exists : BOOLEAN, download : BOOLEAN, file : {1, 2},
     load_model : {"ok", "mismatch", "error"}, compile : {"ok", "raises"}]

NoGetModelCall ==
    [outcome |-> "none", value |-> None, cached |-> FALSE, load |-> "none"]

\* A variant that never finds a model in the cache.
IsCachedNever(model) == FALSE

\* not (_model is None)
IsCached(model) == model # None

\* get_model() of the given server with the given _model: the _model it
\* leaves and the call as it went: cached (the if was skipped), load (what
\* became of the attempt to make a model from the file), outcome and value.
get_model(server, model, env) ==
    IF IsCached(model)
    THEN [model |-> model,
          call |-> [outcome |-> "returned", value |-> model, cached |-> TRUE,
                    load |-> "none"]]
    ELSE IF ~(env.exists \/ (server = "app.py" /\ env.download))
    THEN [model |-> None,
          call |-> [outcome |-> "RuntimeError", value |-> None, cached |-> FALSE,
                    load |-> "no file"]]
    ELSE IF env.load_model = "ok"
    THEN IF env.compile = "ok"
         THEN LET loaded == [made_by |-> "load_model", file |-> env.file,
                             compiled |-> TRUE]
              IN  [model |-> loaded,
                   call |-> [outcome |-> "returned", value |-> loaded, cached |-> FALSE,
                             load |-> "loaded"]]
         ELSE [model |-> [made_by |-> "load_model", file |-> env.file,
                          compiled |-> FALSE],
               call |-> [outcome |-> IF server = "app.py" THEN "RuntimeError"
                                     ELSE "Exception",
                         value |-> None, cached |-> FALSE, load |-> "loaded"]]
    ELSE IF env.load_model = "mismatch" /\ server = "backend/main.py"
    THEN LET rebuilt == [made_by |-> "_create_compatible_model", file |-> env.file,
                         compiled |-> TRUE]
         IN  [model |-> rebuilt,
              call |-> [outcome |-> "returned", value |-> rebuilt, cached |-> FALSE,
                        load |-> "loaded"]]
    ELSE [model |-> None,
          call |-> [outcome |-> IF server = "app.py" THEN "RuntimeError"
                                ELSE "Exception",
                    value |-> None, cached |-> FALSE, load |-> "failed"]]

ModelInit ==
    /\ process = "none"
    /\ _model = None
    /\ get_model_ret = NoGetModelCall
    /\ get_model_calls = 0
    /\ loads = 0
    /\ failures = 0
    /\ served = {}

OtherThanModel ==
    <<detector_vars, concurrent_vars, validator_vars, gradcam_vars, risk_vars,
      streamlit_vars, batch_vars, cc_vars>>

\* A server process starts: _model = None
StartServer ==
    /\ process = "none"
    /\ process' \in Servers
    /\ UNCHANGED <<_model, get_model_ret, get_model_calls, loads, failures, served,
                   OtherThanModel>>

\* A request handler or the startup event calls get_model().
GetModel ==
    /\ process \in Servers
    /\ get_model_calls < MaxGetModelCalls
    /\ \E env \in Environments :
          LET got == get_model(process, _model, env)
          IN  /\ _model' = got.model
              /\ get_model_ret' = got.call
              /\ loads' = IF got.call.load = "loaded" THEN loads + 1 ELSE loads
              /\ failures' = IF got.call.load \in {"no file", "failed"}
                             THEN failures + 1 ELSE failures
              /\ served' = IF got.call.outcome = "returned"
                           THEN served \cup {got.call.value} ELSE served
    /\ get_model_calls' = get_model_calls + 1
    /\ UNCHANGED <<process, OtherThanModel>>

\* The process ends.
StopServer ==
    /\ process \in Servers
    /\ process' = "none"
    /\ _model' = None
    /\ get_model_ret' = NoGetModelCall
    /\ get_model_calls' = 0
    /\ loads' = 0
    /\ failures' = 0
    /\ served' = {}
    /\ UNCHANGED OtherThanModel

-----------------------------------------------------------------------------
(* /batch-predict (app.py).  A file is its filename, whether Image.open    *)
(* reads it, and the output of the model on it in hundredths.              *)

\* len(files) > 10
BatchLimit == 10

\* Requests of up to this many files are posted in every combination.
MaxShortBatch == 3

\* An unreadable file, a benign and a malignant image, and an image on
\* which the model returns exactly 0.5.
FileKinds ==
    {[readable |-> FALSE, prediction |-> 0], [readable |-> TRUE, prediction |-> 20],
     [readable |-> TRUE, prediction |-> 80], [readable |-> TRUE, prediction |-> 50]}

\* The i-th file of a request, named by its place.
FileOf(i, kind) ==
    [filename |-> i, readable |-> kind.readable, prediction |-> kind.prediction]

\* The long requests: files of a kind with every third file of another.
LongBatch(n, kind, other) ==
    [i \in 1 .. n |-> FileOf(i, IF i % 3 = 2 THEN other ELSE kind)]

BatchFiles ==
    UNION {{[i \in 1 .. n |-> FileOf(i, kinds[i])] : kinds \in [1 .. n -> FileKinds]} :
              n \in 0 .. MaxShortBatch}
    \cup {LongBatch(n, kind, other) :
              n \in BatchLimit - 1 .. BatchLimit + 2, kind \in FileKinds, other \in FileKinds}

BatchRequests == [files : BatchFiles, loadable : BOOLEAN]

NoBatchRequest == [files |-> <<>>, loadable |-> TRUE]

BatchInit ==
    /\ batch_request = NoBatchRequest
    /\ batch_pc = "idle"
    /\ batch_response = NoResponse
    /\ files_read = 0

OtherThanBatch ==
    <<detector_vars, concurrent_vars, validator_vars, gradcam_vars, risk_vars,
      streamlit_vars, model_vars, cc_vars>>

\* A variant that accepts any number of files.
TooManyNever(files) == FALSE

\* len(files) > 10
TooMany(files) == Len(files) > BatchLimit

\* The body of the loop of batch_predict for one file: the entry appended
\* to results.  Image.open and get_model raise inside the try.
BatchEntry(file, loadable) ==
    IF ~file.readable
    THEN [filename |-> file.filename, error |-> <<"cannot identify image file">>]
    ELSE IF ~loadable
    THEN [filename |-> file.filename, error |-> <<"Failed to load model">>]
    ELSE [filename |-> file.filename,
          prediction |-> IF file.prediction > 50 THEN "Malignant" ELSE "Benign",
          confidence |-> IF file.prediction > 50 THEN file.prediction
                         ELSE 100 - file.prediction,
          probabilities |-> [benign |-> 100 - file.prediction,
                             malignant |-> file.prediction]]

\* for file in files: ... results.append(...)
RECURSIVE BatchLoop(_, _, _)
BatchLoop(files, loadable, results) ==
    IF files = <<>> THEN results
    ELSE BatchLoop(Tail(files), loadable,
                   Append(results, BatchEntry(Head(files), loadable)))

\* "error" not in r
IsSuccessful(r) == "error" \notin DOMAIN r

\* sum(1 for r in successful if r["prediction"] == prediction)
CountOf(successful, prediction) ==
    Len(SelectSeq(successful, LAMBDA r : r.prediction = prediction))

\* batch_predict(files): the answer and the number of files it read
batch_predict(files, loadable) ==
    IF TooMany(files)
    THEN [response |-> HTTPException(400, "Maximum 10 images allowed per batch request"),
          read |-> 0]
    ELSE LET results == BatchLoop(files, loadable, <<>>)
             successful == SelectSeq(results, IsSuccessful)
         IN  [response |->
                 [status |-> 200,
                  body |-> [total_images |-> Len(files),
                            successful |-> Len(successful),
                            failed |-> Len(files) - Len(successful),
                            summary |-> [malignant |-> CountOf(successful, "Malignant"),
                                         benign |-> CountOf(successful, "Benign")],
                            results |-> results]],
              read |-> Len(files)]

\* A client posts files to /batch-predict.
PostBatch ==
    /\ batch_pc = "idle"
    /\ batch_request' \in BatchRequests
    /\ batch_pc' = "posted"
    /\ UNCHANGED <<batch_response, files_read, OtherThanBatch>>

\* batch_predict runs on them.
BatchPredict ==
    /\ batch_pc = "posted"
    /\ LET done == batch_predict(batch_request.files, batch_request.loadable)
       IN  /\ batch_response' = done.response
           /\ files_read' = done.read
    /\ batch_pc' = "responded"
    /\ UNCHANGED <<batch_request, OtherThanBatch>>

\* The answer is sent and the request is over.
BatchAnswered ==
    /\ batch_pc = "responded"
    /\ batch_request' = NoBatchRequest
    /\ batch_pc' = "idle"
    /\ batch_response' = NoResponse
    /\ files_read' = 0
    /\ UNCHANGED OtherThanBatch

-----------------------------------------------------------------------------
(* analyze_cc_view and its caller generate_mammogram_view_analysis         *)
(* (backend/grad_cam.py).  A Python value on which .get is called is       *)
(* tagged with its type: a dict has .get, a str and None have not.         *)

Dict(items) == [type |-> "dict", items |-> items]

Str(value) == [type |-> "str", value |-> value]

\* {}
EmptyDict == Dict(<<>>)

\* The value has a method get.
HasGet(value) == value # None /\ value.type = "dict"

\* d.get(key, default)
Get(d, key, default) == IF key \in DOMAIN d.items THEN d.items[key] ELSE default

\* np.array(image.convert('L'))[y, x] of an image whose pixels are gray
GrayAt(image, x, y) == ColorAt(image, x + 1, y + 1)[1]

PixelsOf(image) == (0 .. image.width - 1) \X (0 .. image.height - 1)

\* create_tissue_mask(img_array): the pixels above the threshold
TissuePixels(image) == {p \in PixelsOf(image) : TissueAt(image, p[1], p[2])}

RECURSIVE SumGray(_, _)
SumGray(image, pixels) ==
    IF pixels = {} THEN 0
    ELSE LET p == CHOOSE q \in pixels : TRUE
         IN  GrayAt(image, p[1], p[2]) + SumGray(image, pixels \ {p})

\* analyze_breast_density(img_array, tissue_mask): None without tissue,
\* else the dict of the category from the share of tissue pixels brighter
\* than the mean (all tissue of an image of the model has one gray value,
\* so none is)
analyze_breast_density(image) ==
    IF TissuePixels(image) = {} THEN None
    ELSE Dict([category |-> Str("A"), description |-> Str("Almost entirely fatty"),
               detail |-> Str("The breasts are almost entirely fatty."),
               density_percentage |-> 0, sensitivity |-> Str("High (>90%)"),
               masking_risk |-> Str("Very Low"),
               recommendation |-> Str("Standard annual mammography")])

\* ndi.binary_dilation(tissue_mask, iterations=3) & ~tissue_mask: the
\* pixels off the mask at most three steps from it
SkinRegion(image) ==
    LET tissue == TissuePixels(image)
    IN  {p \in PixelsOf(image) \ tissue :
            \E q \in tissue : Abs(p[1] - q[1]) + Abs(p[2] - q[2]) <= 3}

\* skin_status, from skin_thickness_indicator = skin_intensity / 255 * 100
SkinStatus(image) ==
    LET skin_region == SkinRegion(image)
        total == SumGray(image, skin_region)
        count == Cardinality(skin_region)
    IN  IF count = 0 \/ 100 * total < 20 * 255 * count THEN "Normal"
        ELSE IF 100 * total < 40 * 255 * count THEN "Mildly Prominent"
        ELSE IF 100 * total < 60 * 255 * count THEN "Moderately Thickened"
        ELSE "Significantly Thickened"

\* np.mean(img_array[h//3:2*h//3, w//3:2*w//3]) > 50 (nan, the mean of an
\* empty region, is not)
NippleAreaBright(image) ==
    LET center_region == (image.width \div 3 .. (2 * image.width) \div 3 - 1)
                         \X (image.height \div 3 .. (2 * image.height) \div 3 - 1)
    IN  /\ center_region # {}
        /\ SumGray(image, center_region) > 50 * Cardinality(center_region)

\* analyze_skin_and_nipple(img_array, tissue_mask)
analyze_skin_and_nipple(image) ==
    Dict([skin_status |-> Str(SkinStatus(image)),
          skin_detail |-> Str("detail"),
          skin_concern_level |-> Str("concern"),
          skin_thickness_score |-> 0,
          nipple_retraction |-> Str(IF NippleAreaBright(image) THEN "Not detected"
                                    ELSE "Possible - requires clinical correlation"),
          recommendation |-> Str("recommendation")])

\* An exception leaves the function.
Raises(error) == [raised |-> TRUE, error |-> error]

Returns(value) == [raised |-> FALSE, value |-> value]

\* The regions r of detected_regions with the word in r.get('cancer_type', '')
RegionsOf(detected_regions, word) ==
    SelectSeq(detected_regions, LAMBDA r : r.cancer_type = word)

\* suspicion_level of analyze_cc_view
SuspicionLevel(model_confidence, abnormalities) ==
    IF model_confidence >= 75 \/ abnormalities >= 3 THEN "High"
    ELSE IF model_confidence >= 50 \/ abnormalities >= 1 THEN "Intermediate"
    ELSE "Low"

\* analyze_cc_view(image, heatmap, model_confidence, detected_regions)
analyze_cc_view(image, model_confidence, detected_regions) ==
    LET density_analysis == analyze_breast_density(image)
        skin_analysis == analyze_skin_and_nipple(image)
        abnormalities == Len(detected_regions)
        suspicion_level == SuspicionLevel(model_confidence, abnormalities)
    IN  IF ~HasGet(density_analysis)
        THEN Raises("AttributeError: 'NoneType' object has no attribute 'get'")
        ELSE IF ~HasGet(skin_analysis)
        THEN Raises("AttributeError: 'NoneType' object has no attribute 'get'")
        ELSE IF ~HasGet(Get(skin_analysis, "skin_thickening", EmptyDict))
        THEN Raises("AttributeError: 'str' object has no attribute 'get'")
        ELSE IF ~HasGet(Get(skin_analysis, "nipple_retraction", EmptyDict))
        THEN Raises("AttributeError: 'str' object has no attribute 'get'")
        ELSE Returns(Dict(
                [view_type |-> Str("CC (Cranio-Caudal)"),
                 image_quality |-> Str("quality"),
                 quality_score |-> 50,
                 breast_density |-> Get(density_analysis, "acr_category", Str("B")),
                 masses |-> Len(RegionsOf(detected_regions, "Mass")),
                 calcifications |-> Len(RegionsOf(detected_regions, "Calcification")),
                 architectural_distortion |-> Str("No architectural distortion identified"),
                 asymmetry |-> Str("asymmetry"),
                 skin_nipple_changes |->
                     IF Get(Get(skin_analysis, "nipple_retraction", EmptyDict),
                            "detected", FALSE) = TRUE
                     THEN Str("Nipple retraction suspected")
                     ELSE Str("No skin or nipple abnormalities"),
                 impression |-> Str("impression"),
                 birads_category |-> Str("BI-RADS"),
                 suspicion_level |-> Str(suspicion_level),
                 confidence_score |-> model_confidence]))

\* generate_mammogram_view_analysis(..., view_type) for the view types
\* "RCC" and "LCC": an exception of analyze_cc_view goes through it.
generate_mammogram_view_analysis(image, model_confidence, detected_regions, view_code) ==
    LET analysis == analyze_cc_view(image, model_confidence, detected_regions)
    IN  IF analysis.raised THEN analysis
        ELSE Returns(Dict([k \in DOMAIN analysis.value.items
                              \cup {"view_code", "laterality", "laterality_code"} |->
                             IF k \in {"view_type", "view_code"} THEN Str(view_code)
                             ELSE IF k = "laterality"
                             THEN Str(IF view_code = "RCC" THEN "Right" ELSE "Left")
                             ELSE IF k = "laterality_code"
                             THEN Str(IF view_code = "RCC" THEN "R" ELSE "L")
                             ELSE analysis.value.items[k]]))

\* The images of CC views: tissue of one gray value in the columns on the
\* left, on a background below the threshold of the tissue mask.
CCSize == <<8, 6>>

CCImages ==
    {[ScanOf(CCSize, "rect", ow) EXCEPT !.fg = fg, !.bg = bg] :
        ow \in 0 .. CCSize[1], fg \in {Gray60, Gray128, White},
        bg \in {Black, <<10, 10, 10>>}}

DetectedRegions ==
    {<<>>, <<[cancer_type |-> "Mass"]>>,
     <<[cancer_type |-> "Calcification"], [cancer_type |-> "Mass"]>>}

NoCCCall ==
    [function |-> "none", image |-> ScanOf(CCSize, "rect", 0), model_confidence |-> 0,
     detected_regions |-> <<>>, view_type |-> ""]

CCInit ==
    /\ cc_call = NoCCCall
    /\ cc_ret = Returns(None)

OtherThanCC ==
    <<detector_vars, concurrent_vars, validator_vars, gradcam_vars, risk_vars,
      streamlit_vars, model_vars, batch_vars>>

\* analyze_cc_view is called.
AnalyzeCCView ==
    /\ cc_call = NoCCCall
    /\ \E image \in CCImages, model_confidence \in Predictions \cup {50},
          detected_regions \in DetectedRegions :
          /\ cc_call' = [function |-> "analyze_cc_view", image |-> image,
                         model_confidence |-> model_confidence,
                         detected_regions |-> detected_regions, view_type |-> ""]
          /\ cc_ret' = analyze_cc_view(image, model_confidence, detected_regions)
    /\ UNCHANGED OtherThanCC

\* generate_mammogram_view_analysis is called for a CC view.
GenerateCCViewAnalysis ==
    /\ cc_call = NoCCCall
    /\ \E image \in CCImages, model_confidence \in Predictions \cup {50},
          detected_regions \in DetectedRegions, view_type \in {"RCC", "LCC"} :
          /\ cc_call' = [function |-> "generate_mammogram_view_analysis", image |-> image,
                         model_confidence |-> model_confidence,
                         detected_regions |-> detected_regions, view_type |-> view_type]
          /\ cc_ret' = generate_mammogram_view_analysis(image, model_confidence,
                                                        detected_regions, view_type)
    /\ UNCHANGED OtherThanCC

\* The caller is done with the result.
CCViewDone ==
    /\ cc_call # NoCCCall
    /\ cc_call' = NoCCCall
    /\ cc_ret' = Returns(None)
    /\ UNCHANGED OtherThanCC

CheckDuplicate ==
    /\ \E image_data \in DataIds, image \in Images, filename \in Filenames :
          check_duplicate(image_data, image, filename)
    /\ UNCHANGED <<concurrent_vars, validator_vars, gradcam_vars, service_vars>>

Clear == clear /\ UNCHANGED <<concurrent_vars, validator_vars, gradcam_vars, service_vars>>

Init ==
    /\ DetectorInit /\ ConcurrentInit /\ ValidatorInit
    /\ DetectInit /\ AnalyzeInit /\ ViewInit
    /\ RiskInit /\ StreamlitInit /\ ModelInit /\ BatchInit /\ CCInit

Next == CheckDuplicate \/ Clear

Spec == Init /\ [][Next]_vars

-----------------------------------------------------------------------------
(* The global detector shared by worker threads.  check_duplicate takes no *)
(* lock: each statement of it is a step, and the steps of two calls        *)
(* interleave.  A loop over a dict is one step.                            *)

Goto(t, pc) == requests' = [requests EXCEPT ![t].pc = pc]

Return(t, r) == requests' = [requests EXCEPT ![t].pc = "done", ![t].ret = r]

\* Both calls have finished their lookups and neither has stored yet.
BothBeforeStore(reqs) ==
    \E t1, t2 \in Threads :
        /\ t1 # t2
        /\ reqs[t1].pc = "store_hash"
        /\ reqs[t2].pc = "store_hash"
        /\ reqs[t1].image_data = reqs[t2].image_data

Shared == <<uploaded_hashes, uploaded_phashes>>

Ghosts == <<call, ret, accepted, repeated, flagged_before, validator_vars, gradcam_vars, service_vars>>

\* A request thread enters check_duplicate(image_data, image, filename).
Begin(t) ==
    /\ requests[t].pc \in {"idle", "done"}
    /\ calls_made < MaxCalls
    /\ \E image_data \in DataIds, image \in Images, filename \in Filenames :
          requests' = [requests EXCEPT ![t] =
                          [pc |-> "check_empty", image_data |-> image_data,
                           image |-> image, filename |-> filename,
                           ret |-> NotDuplicate]]
    /\ calls_made' = calls_made + 1
    /\ raced' = FALSE
    /\ UNCHANGED <<Shared, Ghosts>>

\* if not self.uploaded_hashes and not self.uploaded_phashes: hash both.
CheckEmpty(t) ==
    /\ requests[t].pc = "check_empty"
    /\ IF uploaded_hashes = <<>> /\ uploaded_phashes = <<>>
       THEN IF HashingRaises(requests[t].image)
            THEN Return(t, HashingFailed(uploaded_hashes, uploaded_phashes).ret)
            ELSE Goto(t, "store_hash")
       ELSE Goto(t, "exact")
    /\ raced' = (raced \/ BothBeforeStore(requests'))
    /\ UNCHANGED <<Shared, Ghosts, calls_made>>

\* file_hash = ...; for prev_hash, prev_filename in self.uploaded_hashes.items()
ExactLoop(t) ==
    /\ requests[t].pc = "exact"
    /\ LET hit == ExactMatch(uploaded_hashes, get_file_hash(requests[t].image_data))
       IN  IF hit # 0
           THEN Return(t, ExactDuplicate(uploaded_hashes, uploaded_phashes, hit,
                                         requests[t].filename).ret)
           ELSE Goto(t, "similar")
    /\ UNCHANGED <<Shared, Ghosts, calls_made, raced>>

\* phash = ...; for prev_phash, prev_filename in self.uploaded_phashes.items()
SimilarLoop(t) ==
    /\ requests[t].pc = "similar"
    /\ IF HashingRaises(requests[t].image)
       THEN Return(t, HashingFailed(uploaded_hashes, uploaded_phashes).ret)
       ELSE LET phash == PerceptualHashes[requests[t].image]
                hit == SimilarMatch(uploaded_phashes, phash)
            IN  IF hit # 0
                THEN Return(t, SimilarDuplicate(uploaded_hashes, uploaded_phashes,
                                                phash, hit, requests[t].filename).ret)
                ELSE Goto(t, "store_hash")
    /\ raced' = (raced \/ BothBeforeStore(requests'))
    /\ UNCHANGED <<Shared, Ghosts, calls_made>>

\* self.uploaded_hashes[file_hash] = filename
StoreHash(t) ==
    /\ requests[t].pc = "store_hash"
    /\ uploaded_hashes' = DictSet(uploaded_hashes, get_file_hash(requests[t].image_data),
                                  requests[t].filename)
    /\ Goto(t, "store_phash")
    /\ UNCHANGED <<uploaded_phashes, Ghosts, calls_made, raced>>

\* A variant that notices, when it stores, that the hash is already there.
StorePhashOutcomeChecked(phashes, phash, filename) ==
    Outcome(IF phash \in DictKeys(phashes)
            THEN [is_duplicate |-> TRUE, message |-> SimilarMessage(filename, 0)]
            ELSE NotDuplicate,
            <<>>, DictSet(phashes, phash, filename))

\* self.uploaded_phashes[phash] = filename; return False, ""
StorePhashOutcome(phashes, phash, filename) ==
    Outcome(NotDuplicate, <<>>, DictSet(phashes, phash, filename))

StorePhash(t) ==
    /\ requests[t].pc = "store_phash"
    /\ LET out == StorePhashOutcome(uploaded_phashes,
                                    PerceptualHashes[requests[t].image],
                                    requests[t].filename)
       IN  /\ uploaded_phashes' = out.phashes
           /\ Return(t, out.ret)
    /\ UNCHANGED <<uploaded_hashes, Ghosts, calls_made, raced>>

ConcurrentNext ==
    \E t \in Threads :
        \/ Begin(t)
        \/ CheckEmpty(t)
        \/ ExactLoop(t)
        \/ SimilarLoop(t)
        \/ StoreHash(t)
        \/ StorePhash(t)

SpecConcurrent == Init /\ [][ConcurrentNext]_vars

-----------------------------------------------------------------------------
(* The validator on its own: uploads arrive, are validated and answered.   *)

ValidatorNext == Receive \/ Validate \/ Respond

SpecValidator == Init /\ [][ValidatorNext]_vars

-----------------------------------------------------------------------------
(* detect_bounding_boxes on its own, called with any of its arguments.     *)

DetectNext == DetectBoundingBoxes \/ DetectDone

SpecDetect == Init /\ [][DetectNext]_vars

-----------------------------------------------------------------------------
(* The /analyze endpoint serving one upload after another.                 *)

AnalyzeNext == Post \/ AnalyzeImage \/ Predict \/ CreateGradcamVisualization
               \/ Unpack \/ Answer

SpecAnalyze == Init /\ [][AnalyzeNext]_vars

-----------------------------------------------------------------------------
(* Specification of generate_mammogram_view_analysis in auto mode.         *)

ViewNext ==
    \/ GenerateViewAnalysis
    \/ DetectColoredTextLabel
    \/ DetectTextLabelInImage
    \/ DetectView
    \/ DetectLaterality
    \/ ViewReturned

SpecView == Init /\ [][ViewNext]_vars

RiskNext == RunLadder \/ GetRiskLevel \/ RiskReturned

SpecRisk == Init /\ [][RiskNext]_vars

StreamlitNext == ChooseFile \/ RemoveFile \/ Main

SpecStreamlit == Init /\ [][StreamlitNext]_vars

ModelNext == StartServer \/ GetModel \/ StopServer

SpecModel == Init /\ [][ModelNext]_vars

BatchNext == PostBatch \/ BatchPredict \/ BatchAnswered

SpecBatch == Init /\ [][BatchNext]_vars

CCNext == AnalyzeCCView \/ GenerateCCViewAnalysis \/ CCViewDone

SpecCC == Init /\ [][CCNext]_vars

-----------------------------------------------------------------------------
(* Properties of the duplicate detector, checked under Spec.               *)

IsCheck(c) == c.op = "check_duplicate"

\* Stored perceptual hashes within the threshold of the hash of a picture.
NearStored(phashes, image) ==
    {i \in DOMAIN phashes :
        HammingDistances[PerceptualHashes[image], phashes[i][1]] <= 3}

KnownBytes(hashes, image_data) ==
    \E i \in DOMAIN hashes : hashes[i][1] = get_file_hash(image_data)

\* C1: once check_duplicate has accepted and recorded an image, every later
\* call with byte-identical data returns is_duplicate = True with a non-empty
\* message, whatever the filename (and the picture object), until clear().
C1_ExactDuplicateFlagged ==
    [][(IsCheck(call') /\ call'.image_data \in accepted)
          => (ret'.is_duplicate /\ ret'.message # <<>>)]_vars

\* An accepted byte string came back under another filename and was flagged.
C1_Witness ==
    /\ IsCheck(call)
    /\ call.image_data \in accepted
    /\ ret.is_duplicate
    /\ ret.message[2] # call.filename

\* C2: bytes that match no stored file hash, with a perceptual hash within
\* 3 bits of a stored one, are flagged as duplicate, and the message names
\* the file of a stored hash that is within 3 bits.
C2_SimilarImageFlagged ==
    [][(/\ IsCheck(call')
        /\ ~HashingRaises(call'.image)
        /\ ~KnownBytes(uploaded_hashes, call'.image_data)
        /\ NearStored(uploaded_phashes, call'.image) # {})
          => (/\ ret'.is_duplicate
              /\ \E i \in NearStored(uploaded_phashes, call'.image) :
                    ret'.message[2] = uploaded_phashes[i][2])]_vars

\* New bytes whose picture is exactly 3 bits from the only stored picture
\* near it: flagged, and the message names that file, not the upload's own.
C2_Witness ==
    /\ IsCheck(call)
    /\ ret.is_duplicate
    /\ ~HashingRaises(call.image)
    /\ ~KnownBytes(uploaded_hashes, call.image_data)
    /\ \E i \in DOMAIN uploaded_phashes :
          /\ NearStored(uploaded_phashes, call.image) = {i}
          /\ HammingDistances[PerceptualHashes[call.image], uploaded_phashes[i][1]] = 3
          /\ ret.message[2] = uploaded_phashes[i][2]
          /\ ret.message[2] # call.filename

\* C3: an image whose bytes match no stored file hash and whose perceptual
\* hash is more than 3 bits from every stored one is reported as not a
\* duplicate, and both hashes are recorded under its filename.
C3_DifferentImageAccepted ==
    [][(/\ IsCheck(call')
        /\ ~HashingRaises(call'.image)
        /\ ~KnownBytes(uploaded_hashes, call'.image_data)
        /\ NearStored(uploaded_phashes, call'.image) = {})
          => (/\ ret' = NotDuplicate
              /\ <<get_file_hash(call'.image_data), call'.filename>>
                    \in {uploaded_hashes'[i] : i \in DOMAIN uploaded_hashes'}
              /\ <<PerceptualHashes[call'.image], call'.filename>>
                    \in {uploaded_phashes'[i] : i \in DOMAIN uploaded_phashes'}
              /\ Len(uploaded_hashes') = Len(uploaded_hashes) + 1
              /\ Len(uploaded_phashes') = Len(uploaded_phashes) + 1)]_vars

\* A second, different image was accepted after a first one and recorded.
C3_Witness ==
    /\ IsCheck(call)
    /\ ret = NotDuplicate
    /\ Len(uploaded_hashes) = 2
    /\ uploaded_hashes[2] = <<get_file_hash(call.image_data), call.filename>>
    /\ uploaded_phashes[2] = <<PerceptualHashes[call.image], call.filename>>
    /\ HammingDistances[uploaded_phashes[1][1], uploaded_phashes[2][1]] = 4

\* C4: after clear() both stores are empty, and the next check_duplicate
\* call returns not-duplicate for any image.
C4_ClearForgets ==
    [][/\ (call'.op = "clear") => (uploaded_hashes' = <<>> /\ uploaded_phashes' = <<>>)
       /\ (call.op = "clear" /\ IsCheck(call')) => ~ret'.is_duplicate]_vars

\* The image flagged as a duplicate just before the clear is accepted after it.
C4_Witness ==
    /\ IsCheck(call)
    /\ flagged_before = <<call.image_data, call.image>>
    /\ ~ret.is_duplicate
    /\ Len(uploaded_hashes) = 1

\* C5: a check_duplicate call that returns duplicate leaves both stores
\* unchanged, and repeating the call gives the same verdict and the same
\* message (the same original file).
C5_DuplicateIdempotent ==
    [][/\ (IsCheck(call') /\ ret'.is_duplicate)
            => UNCHANGED <<uploaded_hashes, uploaded_phashes>>
       /\ (IsCheck(call') /\ repeated') => ret' = ret]_vars

\* A call flagged as duplicate was repeated and flagged again.
C5_Witness ==
    /\ IsCheck(call)
    /\ repeated
    /\ ret.is_duplicate
    /\ ret.message[2] # call.filename

-----------------------------------------------------------------------------
(* Properties of the shared detector, checked under SpecConcurrent.        *)

AllDone == \A t \in Threads : requests[t].pc = "done"

\* C6: when two calls for byte-identical images both finish their lookups
\* before either stores, both calls return not-duplicate.
C6_RaceBothAccepted ==
    (raced /\ AllDone) => \A t \in Threads : requests[t].ret = NotDuplicate

\* Two calls for the same bytes and picture raced, both returned
\* not-duplicate, and the stores hold a single entry.
C6_Witness ==
    /\ raced
    /\ AllDone
    /\ \A t \in Threads : ~requests[t].ret.is_duplicate
    /\ \A t1, t2 \in Threads :
          /\ requests[t1].image_data = requests[t2].image_data
          /\ requests[t1].image = requests[t2].image
    /\ Len(uploaded_hashes) = 1
    /\ Len(uploaded_phashes) = 1

-----------------------------------------------------------------------------
(* Properties of the validator, checked under SpecValidator.               *)

Validated == validator_pc = "validated"

HasAlpha(image) == image.mode = "RGBA" \/ image.mode = "LA" \/ image.mode = "PA"

TypeRefused(content_type) ==
    content_type # <<>> /\ content_type[1] \notin allowed_types

AcceptableSize(image) ==
    /\ image.width >= 10
    /\ image.height >= 10
    /\ image.width <= 20 * image.height
    /\ 20 * image.width >= image.height

\* C7: validate_mammogram_image rejects every image whose mode carries an
\* alpha channel; unless the content type is refused first, the reason is
\* the transparency one, whatever the size and the pixels of the image.
C7_AlphaRejected ==
    (Validated /\ HasAlpha(upload.image))
        => /\ ~validation.valid
           /\ ~TypeRefused(upload.content_type)
                 => validation.message = <<"This image has transparency">>

\* An LA image that is also too small is rejected for its transparency.
C7_Witness ==
    /\ Validated
    /\ upload.image.mode = "LA"
    /\ upload.image.width < 10
    /\ upload.content_type = <<"image/png">>
    /\ validation = Reject(<<"This image has transparency">>)

\* A coloured block on part of a uniform light-gray RGB frame.
ColouredObjectOnLightGray(image) ==
    /\ image.mode = "RGB"
    /\ AcceptableSize(image)
    /\ image.layout = "rect"
    /\ image.bg = LightGray
    /\ image.fg \notin Grays
    /\ image.ow * image.oh > 0
    /\ image.ow * image.oh < image.width * image.height

\* C8: a colour photograph in which a coloured object occupies only part of
\* an otherwise uniform light-gray RGB frame is rejected.
C8_ColouredObjectRejected ==
    (Validated /\ ColouredObjectOnLightGray(upload.image)) => ~validation.valid

\* Mean |r-g|, |r-b|, |g-b| above 30; mean saturation above 25; more than
\* 15% skin-toned pixels (stated on the pixels, not through the checks).
MeanChannelDiffAbove30(image) ==
    SumPixels([k \in Pixels(image) |-> ChannelDiff(image, k)]) > 90 * NumPixels(image)

MeanSaturationAbove25(image) ==
    SumPixels([k \in Pixels(image) |-> Saturation(image, k)]) > 25 * NumPixels(image)

SkinShareAbove15(image) ==
    100 * Cardinality({k \in 1 .. NumPixels(image) :
                          LET c == PixelAt(image, k)
                          IN  c[1] > c[2] /\ c[2] > c[3] /\ 100 < c[1] /\ c[1] < 255})
        > 15 * NumPixels(image)

\* C9: a 3-channel image of acceptable size and aspect ratio is rejected
\* whenever its mean inter-channel difference exceeds 30, or its mean
\* saturation exceeds 25, or more than 15% of its pixels are skin-toned.
C9_ColourRejected ==
    (/\ Validated
     /\ upload.image.mode = "RGB"
     /\ AcceptableSize(upload.image)
     /\ \/ MeanChannelDiffAbove30(upload.image)
        \/ MeanSaturationAbove25(upload.image)
        \/ SkinShareAbove15(upload.image))
        => ~validation.valid

\* An image that only the skin-tone rule catches, and that has the
\* brightness, contrast, tissue and histogram of an accepted image.
C9_Witness ==
    /\ Validated
    /\ upload.image.mode = "RGB"
    /\ AcceptableSize(upload.image)
    /\ ~TypeRefused(upload.content_type)
    /\ ~MeanChannelDiffAbove30(upload.image)
    /\ ~MeanSaturationAbove25(upload.image)
    /\ SkinShareAbove15(upload.image)
    /\ BrightnessCheck(upload.image) = NoReason
    /\ ContrastCheck(upload.image) = NoReason
    /\ TissueCheck(upload.image) = NoReason
    /\ HistogramCheck(upload.image) = NoReason
    /\ validation = Reject(<<"This appears to be a PHOTOGRAPH of a person">>)

\* C10: an image whose share of strong-gradient pixels exceeds
\* MAX_EDGE_DENSITY (0.7) is not accepted as a mammogram.
C10_EdgeDensityRejected ==
    (/\ Validated
     /\ upload.image.mode \in {"L", "RGB"}
     /\ AcceptableSize(upload.image)
     /\ 10 * Cardinality({k \in 1 .. NumPixels(upload.image) :
                             StrongEdge(upload.image, k)})
           > 7 * NumPixels(upload.image))
        => ~validation.valid

-----------------------------------------------------------------------------
(* Properties of detect_bounding_boxes, checked under SpecDetect.          *)

DetectCalled == detect_call # NoDetectCall

BoxesOfSeq(boxes) == {boxes[i] : i \in DOMAIN boxes}

Inside(inner, outer) ==
    /\ outer.x1 <= inner.x1 /\ inner.x2 <= outer.x2
    /\ outer.y1 <= inner.y1 /\ inner.y2 <= outer.y2

\* C11: every box detect_bounding_boxes returns lies inside the image:
\* 0 <= x1 <= x2 < width and 0 <= y1 <= y2 < height, for every heatmap,
\* threshold, minimum area, tissue mask and image size.
C11_BoxesInsideImage ==
    DetectCalled =>
        \A box \in BoxesOfSeq(detect_ret.boxes) :
            /\ 0 <= box.x1 /\ box.x1 <= box.x2
            /\ box.x2 < detect_call.original_image_size[1]
            /\ 0 <= box.y1 /\ box.y1 <= box.y2
            /\ box.y2 < detect_call.original_image_size[2]

\* A box that reaches the last column and the last row of the image, next
\* to one that does not.
C11_Witness ==
    /\ DetectCalled
    /\ Len(detect_ret.boxes) >= 2
    /\ \E box \in BoxesOfSeq(detect_ret.boxes) :
          /\ box.x2 = detect_call.original_image_size[1] - 1
          /\ box.y2 = detect_call.original_image_size[2] - 1
          /\ box.x1 < box.x2

\* The boxes of the same call at another threshold.
BoxesAt(threshold) ==
    detect_bounding_boxes(detect_call.heatmap, detect_call.original_image_size,
                          threshold, detect_call.min_area,
                          detect_call.tissue_mask).boxes

\* C18: detect_bounding_boxes is monotone in its threshold: with the same
\* heatmap, image size, minimum area and tissue mask, every box found at a
\* threshold lies inside some box found at any lower threshold.
C18_ThresholdMonotone ==
    DetectCalled =>
        \A lower \in Thresholds :
            lower < detect_call.threshold =>
                \A box \in BoxesOfSeq(detect_ret.boxes) :
                    \E wider \in BoxesOfSeq(BoxesAt(lower)) : Inside(box, wider)

\* Two boxes at the higher threshold that one strictly larger box holds at
\* a lower one.
C18_Witness ==
    /\ DetectCalled
    /\ Len(detect_ret.boxes) = 2
    /\ \E lower \in Thresholds :
          /\ lower < detect_call.threshold
          /\ Len(BoxesAt(lower)) = 1
          /\ \A box \in BoxesOfSeq(detect_ret.boxes) :
                /\ Inside(box, BoxesAt(lower)[1])
                /\ box # BoxesAt(lower)[1]

-----------------------------------------------------------------------------
(* Properties of create_gradcam_visualization and of /analyze, checked     *)
(* under SpecAnalyze.                                                      *)

\* create_gradcam_visualization has returned and its tuple is not unpacked yet.
Returned == analyze_pc = "returned"

\* create_gradcam_visualization returned without an error message.
Succeeded == Returned /\ gradcam_ret[6] = None

\* The boxes that passed the filters and are not retained.
Dropped == {gradcam_locals.passed[i] : i \in DOMAIN gradcam_locals.passed}
           \ {gradcam_locals.filtered[i] : i \in DOMAIN gradcam_locals.filtered}

\* C12: create_gradcam_visualization retains at most 10 of the boxes that
\* passed the filters, in the order of non-increasing mean activation, the
\* findings list exactly the retained boxes, and no box that was dropped has
\* a greater mean activation than a box that was kept.
C12_TopTenByConfidence ==
    Returned =>
        LET kept == gradcam_locals.filtered
            passed == gradcam_locals.passed
        IN  /\ Len(kept) = Min2(Len(passed), MaxRegions)
            /\ Len(kept) <= 10
            /\ \A i \in DOMAIN kept : \E j \in DOMAIN passed : kept[i] = passed[j]
            /\ \A i, j \in DOMAIN kept : i < j => ~MoreConfident(kept[j], kept[i])
            /\ \A d \in Dropped : \A i \in DOMAIN kept : ~MoreConfident(d, kept[i])
            /\ Succeeded =>
                  /\ gradcam_ret[7].num_regions = Len(kept)
                  /\ \A i \in DOMAIN kept :
                        /\ gradcam_ret[7].regions[i].bbox.x1 = kept[i].x1
                        /\ gradcam_ret[7].regions[i].bbox.y1 = kept[i].y1

\* More than ten boxes passed the filters in another order than that of
\* their mean activation, ten were kept and a weaker one was dropped.
C12_Witness ==
    /\ Succeeded
    /\ Len(gradcam_locals.passed) > MaxRegions
    /\ Len(gradcam_locals.filtered) = MaxRegions
    /\ gradcam_locals.filtered # SubSeq(gradcam_locals.passed, 1, MaxRegions)
    /\ \E d \in Dropped : MoreConfident(gradcam_locals.filtered[MaxRegions], d)

\* Box a lies before box b in the (top, left) order.
TopLeftBefore(a, b) == a.y1 < b.y1 \/ (a.y1 = b.y1 /\ a.x1 <= b.x1)

\* C13: the retained boxes are in (top, left) order, ascending y1 and then
\* ascending x1, when the region ids are assigned: region id i + 1 is box
\* i of that order.
C13_TopLeftOrder ==
    Succeeded =>
        \A i, j \in DOMAIN gradcam_ret[7].regions :
            i < j => TopLeftBefore(gradcam_ret[7].regions[i].bbox,
                                   gradcam_ret[7].regions[j].bbox)

\* The fraction num / den lies in [0, 1].
InUnitInterval(fraction) ==
    /\ fraction.den > 0
    /\ 0 <= fraction.num
    /\ fraction.num <= fraction.den

\* C14: every confidence of an analysis result lies in [0, 1]: that of the
\* prediction and that stored for each region of the detailed findings.
C14_ConfidenceInUnitInterval ==
    Succeeded =>
        /\ InUnitInterval([num |-> request.prediction, den |-> 100])
        /\ \A i \in DOMAIN gradcam_ret[7].regions :
              InUnitInterval(gradcam_ret[7].regions[i].confidence)

\* make_gradcam_heatmap returned None on the request: the gradients are None.
GradientsUnavailable ==
    /\ request.model.loadable
    /\ request.model.has_conv
    /\ request.model.gradients = "none"

\* C15: when make_gradcam_heatmap yields no map because the gradients are
\* unavailable, create_gradcam_visualization still returns an overlay and
\* the findings and no error message.
C15_FallbackWithoutGradients ==
    (Returned /\ GradientsUnavailable) =>
        /\ gradcam_ret[6] = None
        /\ gradcam_ret[2] # None
        /\ gradcam_ret[7] # None

\* A heatmap was made and no box is left after detection and the filters.
NoRegionSurvives ==
    /\ Returned
    /\ gradcam_locals.heatmap # None
    /\ gradcam_locals.filtered = <<>>

\* C16: when no region survives detection and filtering, the bounding-box
\* image and the cancer-type image are copies of the original image, the
\* findings have zero regions and there is no error message.
C16_NoRegionReturnsOriginal ==
    NoRegionSurvives =>
        /\ gradcam_ret[6] = None
        /\ gradcam_ret[4] = CopyOf(request.image)
        /\ gradcam_ret[5] = CopyOf(request.image)
        /\ gradcam_ret[7] # None
        /\ gradcam_ret[7].num_regions = 0
        /\ gradcam_ret[7].regions = <<>>

\* Two regions agree in size, aspect ratio, intensity pattern and maximum
\* intensity.
SameFeatures(r, s) ==
    /\ r.size = s.size
    /\ r.shape = s.shape
    /\ r.characteristics.pattern = s.characteristics.pattern
    /\ r.characteristics.max_intensity = s.characteristics.max_intensity

\* C17: two regions of a result with equal size, aspect ratio, intensity
\* pattern and maximum intensity have the same primary type, wherever they
\* stand in the list of regions.
C17_TypeIndependentOfIndex ==
    Succeeded =>
        \A i, j \in DOMAIN gradcam_ret[7].regions :
            SameFeatures(gradcam_ret[7].regions[i], gradcam_ret[7].regions[j])
                => gradcam_ret[7].regions[i].cancer_type
                       = gradcam_ret[7].regions[j].cancer_type

\* The upload is an image that can be read and the model can be loaded.
ReadableAndLoadable ==
    /\ request.content_type # <<>>
    /\ StartsWithImage(request.content_type)
    /\ request.image # UnreadableImage
    /\ request.model.loadable

\* C19: a POST to /analyze with a readable image and a loadable model is
\* answered with status 200 and a body with the prediction, the
\* probabilities, the risk label, the image statistics and the images.
C19_AnalyzeAnswers200 ==
    (analyze_pc = "responded" /\ ReadableAndLoadable) =>
        /\ response.status = 200
        /\ response.body.result \in {"Malignant (Cancerous)", "Benign (Non-Cancerous)"}
        /\ response.body.benign_prob + response.body.malignant_prob = 100
        /\ response.body.risk_level = RiskLevel(request.prediction)
        /\ response.body.stats = get_image_statistics(request.image)
        /\ response.body.images.original = pil_to_base64(request.image)

-----------------------------------------------------------------------------
(* Properties of generate_mammogram_view_analysis, checked under SpecView. *)

\* The auto-detection of the view and the laterality is complete.
ViewDetected == view_pc = "detected"

\* What detect_colored_text_label reports on the image: it has no RGB
\* array to look at when the image is grayscale.
ColoredReport ==
    IF view_image.mode # "L" THEN detect_colored_text_label(view_image.colored_corners)
    ELSE NoLabel

\* What detect_text_label_in_image reports on the image.
TextReport == detect_text_label_in_image(view_image)

\* The function was called by generate_mammogram_view_analysis.
Consulted(function) == \E k \in DOMAIN consulted : consulted[k] = function

\* C20: in auto mode the view is that of a text label whenever
\* detect_colored_text_label or detect_text_label_in_image reports one, and
\* detect_mammogram_view_type is consulted only when neither does; the
\* laterality is that of a text label whenever one of the two reports one,
\* and detect_breast_laterality is consulted only when neither does.
C20_TextLabelFirst ==
    ViewDetected =>
        /\ IF ColoredReport.view # None \/ TextReport.view # None
           THEN /\ view_locals.detected_view \in {ColoredReport.view, TextReport.view} \ {None}
                /\ ~Consulted("detect_mammogram_view_type")
           ELSE /\ view_locals.detected_view = detect_mammogram_view_type(view_image)
                /\ Consulted("detect_mammogram_view_type")
        /\ IF ColoredReport.laterality # None \/ TextReport.laterality # None
           THEN /\ view_locals.detected_laterality
                       \in {ColoredReport.laterality, TextReport.laterality} \ {None}
                /\ ~Consulted("detect_breast_laterality")
           ELSE /\ view_locals.detected_laterality = detect_breast_laterality(view_image)
                /\ Consulted("detect_breast_laterality")

\* The colored detector found no label, the text detector read a view
\* without a laterality: the view is that of the text and only the
\* laterality comes from the tissue.
C20_Witness ==
    /\ ViewDetected
    /\ view_image.mode = "RGB"
    /\ ColoredReport = NoLabel
    /\ TextReport.view = <<"MLO">>
    /\ TextReport.laterality = None
    /\ view_locals.detected_view = <<"MLO">>
    /\ view_locals.detected_view # view_image.scored_view
    /\ consulted = <<"detect_colored_text_label", "detect_text_label_in_image",
                     "detect_breast_laterality">>

-----------------------------------------------------------------------------
(* Properties of the stores of the detector, checked under Spec.           *)

\* C27: after any sequence of check_duplicate and clear calls
\* uploaded_hashes and uploaded_phashes hold the same number of entries,
\* one for each image accepted since the last clear(), and any two stored
\* perceptual hashes differ in more than 3 bits.  (A call in which hashing
\* raises stores nothing, so the calls need not be free of such failures.)
C27_StoresInStep ==
    /\ Len(uploaded_hashes) = Len(uploaded_phashes)
    /\ Len(uploaded_hashes) = Cardinality(accepted)
    /\ \A i \in DOMAIN uploaded_hashes : uploaded_hashes[i][1][2] \in accepted
    /\ \A i, j \in DOMAIN uploaded_phashes :
          i # j => HammingDistances[uploaded_phashes[i][1], uploaded_phashes[j][1]]
                      > SimilarityThreshold

\* Two images are stored, 4 bits apart, and the last call was refused as a
\* duplicate without a change of the stores.
C27_Witness ==
    /\ IsCheck(call)
    /\ ret.is_duplicate
    /\ Len(uploaded_hashes) = 2
    /\ Len(uploaded_phashes) = 2
    /\ Cardinality(accepted) = 2
    /\ HammingDistances[uploaded_phashes[1][1], uploaded_phashes[2][1]] = 4

\* Hashing raises in the call: the picture cannot be resized and the call
\* gets as far as get_perceptual_hash (the bytes match no stored file hash).
HashingRaisesIn(hashes, c) ==
    /\ IsCheck(c)
    /\ HashingRaises(c.image)
    /\ ~KnownBytes(hashes, c.image_data)

\* C28: if hashing raises inside check_duplicate, the call returns
\* (False, "") and modifies neither uploaded_hashes nor uploaded_phashes.
C28_HashingFailureLetsThrough ==
    [][HashingRaisesIn(uploaded_hashes, call')
          => (/\ ret' = NotDuplicate
              /\ UNCHANGED <<uploaded_hashes, uploaded_phashes>>)]_vars

\* Hashing raised on new bytes while an image was stored: the call returned
\* not-duplicate and the bytes were not recorded.
C28_Witness ==
    /\ HashingRaisesIn(uploaded_hashes, call)
    /\ ret = NotDuplicate
    /\ Len(uploaded_hashes) = 1
    /\ Len(uploaded_phashes) = 1
    /\ call.image_data \notin accepted

-----------------------------------------------------------------------------
(* Properties of the order of the checks and of the exceptions of the      *)
(* validator, checked under SpecValidator.                                 *)

\* The checks in the order transparency, minimum size, aspect ratio,
\* channel difference, saturation, skin tone, too dark, too bright, low
\* contrast, tissue share, extreme-intensity histogram.
NumChecks == 11

\* Check k fails on the image (stated on the image, not through validate).
Fails(image, k) ==
    CASE k = 1 -> HasAlpha(image)
      [] k = 2 -> image.width < MIN_WIDTH \/ image.height < MIN_HEIGHT
      [] k = 3 -> ~AcceptableSize(image)
      [] k = 4 -> image.mode = "RGB" /\ MeanChannelDiffAbove30(image)
      [] k = 5 -> image.mode = "RGB" /\ MeanSaturationAbove25(image)
      [] k = 6 -> image.mode = "RGB" /\ SkinShareAbove15(image)
      [] k = 7 -> TooDark(image)
      [] k = 8 -> TooBright(image)
      [] k = 9 -> LowContrast(image)
      [] k = 10 -> TooLittleTissue(image)
      [] k = 11 -> ExtremeHistogram(image)

\* The first words of the message of check k.
ReasonOf(k) ==
    <<"This image has transparency", "Image resolution too low",
      "Invalid image aspect ratio", "This is a COLOR PHOTOGRAPH",
      "This is a COLORFUL IMAGE", "This appears to be a PHOTOGRAPH of a person",
      "Image is too dark", "Image is too bright", "Image has too little contrast",
      "Image does not contain sufficient tissue area",
      "Invalid intensity distribution">>[k]

\* The first check from k on that fails on the image, 0 when none does.
RECURSIVE FirstFailing(_, _)
FirstFailing(image, k) ==
    IF k > NumChecks THEN 0
    ELSE IF Fails(image, k) THEN k
    ELSE FirstFailing(image, k + 1)

\* validate(image) has returned: the content type did not end the call and
\* the pixels of the image could be read.
ValidateReturned ==
    /\ Validated
    /\ ~TypeRefused(upload.content_type)
    /\ upload.image.layout # "truncated"

\* C25: validate returns (True, "") only when no check fails, and otherwise
\* (False, reason) with the non-empty message of the first check that fails
\* in the order transparency, minimum size, aspect ratio, channel
\* difference, saturation, skin tone, too dark, too bright, low contrast,
\* tissue share, extreme-intensity histogram.
C25_FirstFailingCheck ==
    ValidateReturned =>
        LET first == FirstFailing(upload.image, 1)
        IN  IF first = 0 THEN validation = Accept
            ELSE /\ ~validation.valid
                 /\ validation.message # <<>>
                 /\ validation.message[1] = ReasonOf(first)

\* An image that fails the channel-difference check and the saturation
\* check after it is refused with the message of the former.
C25_Witness ==
    /\ ValidateReturned
    /\ FirstFailing(upload.image, 1) = 4
    /\ Fails(upload.image, 5)
    /\ validation = Reject(<<"This is a COLOR PHOTOGRAPH">>)

\* C29: validate_mammogram_image never raises.  A content type that is
\* given is checked first, and a disallowed one is refused with the message
\* of the type check whatever the image; when a check of the image raises,
\* the function returns (True, "").
C29_ValidationFailsOpen ==
    Validated =>
        /\ validation.valid \in BOOLEAN
        /\ TypeRefused(upload.content_type)
              => validation = Reject(<<"Invalid file type: ", upload.content_type>>)
        /\ (~TypeRefused(upload.content_type) /\ ValidateRaises(upload.image))
              => validation = Accept

\* An RGB file of acceptable size whose pixels cannot be decoded, sent as
\* image/png, is accepted.
C29_Witness ==
    /\ Validated
    /\ upload.content_type = <<"image/png">>
    /\ upload.image.mode = "RGB"
    /\ upload.image.layout = "truncated"
    /\ AcceptableSize(upload.image)
    /\ validation = Accept

-----------------------------------------------------------------------------
(* Properties of the filter of create_gradcam_visualization, checked       *)
(* under SpecAnalyze.                                                      *)

\* The pixels of a box: its width x2 - x1 times its height y2 - y1 pixels
\* from its top left corner.
BoxPixels(box) == (box.x1 .. box.x2 - 1) \X (box.y1 .. box.y2 - 1)

\* The box has positive width and height, its centre pixel is tissue and at
\* least 40% of its pixels are tissue (stated on the pixels of the image).
OnTissue(image, box) ==
    /\ box.x2 - box.x1 > 0
    /\ box.y2 - box.y1 > 0
    /\ TissueAt(image, (box.x1 + box.x2) \div 2, (box.y1 + box.y2) \div 2)
    /\ 100 * Cardinality({p \in BoxPixels(box) : TissueAt(image, p[1], p[2])})
          >= 40 * Cardinality(BoxPixels(box))

\* The boxes of a list, as a set.
BoxSet(boxes) == {boxes[i] : i \in DOMAIN boxes}

\* C26: every region kept by create_gradcam_visualization has positive
\* width and height, its centre pixel on the tissue mask and at least 40%
\* of its box pixels on tissue, and a detected box that fails one of these
\* conditions is discarded before the ranking.
C26_KeptBoxesOnTissue ==
    Returned =>
        /\ \A box \in BoxSet(gradcam_locals.filtered) : OnTissue(request.image, box)
        /\ \A box \in BoxSet(gradcam_locals.boxes) :
              box \in BoxSet(gradcam_locals.passed) <=> OnTissue(request.image, box)
        /\ Succeeded =>
              \A i \in DOMAIN gradcam_ret[7].regions :
                 \E box \in BoxSet(gradcam_locals.passed) :
                    /\ gradcam_ret[7].regions[i].bbox.x1 = box.x1
                    /\ gradcam_ret[7].regions[i].bbox.y1 = box.y1
                    /\ gradcam_ret[7].regions[i].bbox.x2 = box.x2
                    /\ gradcam_ret[7].regions[i].bbox.y2 = box.y2

\* Boxes were detected whose centre is on tissue and whose pixels are
\* tissue to less than 40%: all of them were discarded.
C26_Witness ==
    /\ Succeeded
    /\ gradcam_locals.boxes # <<>>
    /\ gradcam_locals.filtered = <<>>
    /\ \E box \in BoxSet(gradcam_locals.boxes) :
          /\ box.x2 > box.x1
          /\ box.y2 > box.y1
          /\ TissueAt(request.image, (box.x1 + box.x2) \div 2, (box.y1 + box.y2) \div 2)
          /\ ~OnTissue(request.image, box)

-----------------------------------------------------------------------------
(* Properties of the risk assessment of run_full_analysis, checked under   *)
(* SpecRisk.                                                               *)

-----------------------------------------------------------------------------
(* Properties of the Streamlit app, checked under SpecStreamlit.           *)

\* C22: after Analyze was pressed on an uploaded image with a loadable
\* model, analysis_data is stored, analysis_complete is True and
\* current_page is 'results'; after Back, current_page is 'upload' and
\* analysis_complete is False.
C22_AnalyzeShowsResults ==
    /\ (last_run.event = "Analyze" /\ uploaded_file # None /\ uploaded_file.model.loadable)
          => /\ session_state.analysis_data # None
             /\ session_state.analysis_complete
             /\ session_state.current_page = "results"
    /\ last_run.event = "Back"
          => /\ session_state.current_page = "upload"
             /\ ~session_state.analysis_complete

-----------------------------------------------------------------------------
(* Properties of get_model, checked under SpecModel.                       *)

-----------------------------------------------------------------------------
(* Properties of /batch-predict, checked under SpecBatch.                  *)

\* The file can be read and the model loaded: its prediction is made.
Predictable(file, loadable) == file.readable /\ loadable

\* C23: a request of more than 10 files is answered with 400 and none of
\* its files is read; a request of at most 10 files gets one entry per
\* file, in the order of the upload, an error entry exactly for the files
\* that fail, with successful + failed = total_images and malignant +
\* benign = successful.
C23_OneEntryPerFile ==
    batch_pc = "responded" =>
        LET files == batch_request.files
            loadable == batch_request.loadable
        IN  IF Len(files) > 10
            THEN batch_response.status = 400 /\ files_read = 0
            ELSE LET body == batch_response.body
                     good == {i \in DOMAIN files : Predictable(files[i], loadable)}
                 IN  /\ batch_response.status = 200
                     /\ Len(body.results) = Len(files)
                     /\ \A i \in DOMAIN files :
                           /\ body.results[i].filename = files[i].filename
                           /\ "error" \in DOMAIN body.results[i] <=> i \notin good
                           /\ i \in good =>
                                 body.results[i].prediction \in {"Malignant", "Benign"}
                     /\ body.total_images = Len(files)
                     /\ body.successful = Cardinality(good)
                     /\ body.successful + body.failed = body.total_images
                     /\ body.summary.malignant + body.summary.benign = body.successful
                     /\ body.summary.malignant =
                           Cardinality({i \in good : files[i].prediction > 50})

\* A request of ten files was answered: some of them failed and files
\* after them were predicted.
C23_Witness ==
    /\ batch_pc = "responded"
    /\ Len(batch_request.files) = 10
    /\ batch_response.status = 200
    /\ batch_response.body.failed > 0
    /\ batch_response.body.successful > 0
    /\ "error" \in DOMAIN batch_response.body.results[2]
    /\ "error" \notin DOMAIN batch_response.body.results[3]

-----------------------------------------------------------------------------
(* Properties of analyze_cc_view, checked under SpecCC.                    *)

\* The keys of the analysis of a CC view.
CCKeys ==
    {"view_type", "image_quality", "breast_density", "masses", "calcifications",
     "asymmetry", "skin_nipple_changes", "impression", "birads_category",
     "suspicion_level"}

\* C21: for an image that contains tissue, analyze_cc_view, and
\* generate_mammogram_view_analysis for a CC view, return the analysis
\* dictionary with its keys and do not raise.
C21_CCViewReturnsAnalysis ==
    (cc_call # NoCCCall /\ TissuePixels(cc_call.image) # {}) =>
        /\ ~cc_ret.raised
        /\ HasGet(cc_ret.value)
        /\ CCKeys \subseteq DOMAIN cc_ret.value.items

=============================================================================
